---------------------------- MODULE Spec2Model ----------------------------
(***************************************************************************)
(* A model of the news CMS backend (users, categories, news, comments).    *)
(* The relational store is the only state; every handler is a sequence of  *)
(* statements against it.  Handlers are modelled twice from the same       *)
(* statement operators: as one atomic action (a call that runs alone) and, *)
(* for the handlers whose interleavings matter, statement by statement.    *)
(***************************************************************************)
EXTENDS Integers, Sequences, FiniteSets, TLC

VARIABLES
    usersTable,       \* id -> user row
    categoriesTable,  \* id -> category row
    newsTable,        \* id -> news row
    commentsTable,    \* id -> comment row
    serial,           \* the next value of each table's id sequence
    now,              \* the clock read by new Date() / defaultNow()
    last,             \* the last completed atomic call: op, input, outcome
    proc,             \* statement-level calls in flight, one per process
    served            \* news id -> number of finished getNewsById calls that found it

tables == <<usersTable, categoriesTable, newsTable, commentsTable, serial>>
vars == <<usersTable, categoriesTable, newsTable, commentsTable, serial, now, last, proc, served>>

---------------------------------------------------------------------------
(* Bounds of the model *)

\* how many ids each serial sequence may hand out
MaxUsers == 2
MaxCategories == 2
MaxNews == 2
MaxComments == 2
\* how far the clock runs
MaxNow == 1
\* cap on a row's views_count (reads are disabled beyond it)
MaxViews == 2
\* number of concurrent reader processes in the view-counter specification
NReaders == 2

---------------------------------------------------------------------------
(* Values *)

\* a nullable column: NULL is the empty sequence, a value v is <<v>>
Null == <<>>
Some(v) == <<v>>

\* x || null on an optional, nullable string input: undefined, null and the
\* empty string all become NULL
OrNull(input, field) ==
    IF field \in DOMAIN input /\ input[field] # Null /\ input[field] # Some("")
    THEN input[field] ELSE Null

\* x || null on an optional, nullable Date input: any Date object is truthy
DateOrNull(input, field) ==
    IF field \in DOMAIN input /\ input[field] # Null THEN input[field] ELSE Null

Ok(v) == [kind |-> "ok", value |-> v]
Err(m) == [kind |-> "error", message |-> m]

\* table t without the rows whose id is in ids
Remove(t, ids) == [id \in DOMAIN t \ ids |-> t[id]]

\* results[0]: postgres returns the rows of an unordered select in heap
\* order, which for these tables is the order of insertion unless a row was
\* rewritten; at most one row matches wherever this is used
First(t, ids) == t[CHOOSE id \in ids : \A other \in ids : id <= other]

---------------------------------------------------------------------------
(* Schema: enums, defaults and constraints of the tables *)

userRoleEnum == {"admin", "user"}
newsStatusEnum == {"draft", "published", "archived"}
commentStatusEnum == {"pending", "approved", "rejected"}

\* a users table whose email column is not UNIQUE
UsernameUniqueOnly(username, email, exceptId) ==
    IF \E id \in DOMAIN usersTable \ {exceptId} : usersTable[id].username = username
    THEN "users_username_unique"
    ELSE ""

\* users.username and users.email are UNIQUE
UsersUniqueViolation(username, email, exceptId) ==
    IF \E id \in DOMAIN usersTable \ {exceptId} : usersTable[id].username = username
    THEN "users_username_unique"
    ELSE IF \E id \in DOMAIN usersTable \ {exceptId} : usersTable[id].email = email
    THEN "users_email_unique"
    ELSE ""

\* a categories table whose slug column is not UNIQUE
NoCategoriesConstraint(slug, exceptId) == FALSE

\* categories.slug is UNIQUE
CategoriesUniqueViolation(slug, exceptId) ==
    \E id \in DOMAIN categoriesTable \ {exceptId} : categoriesTable[id].slug = slug

\* a news table whose slug column carries no UNIQUE constraint
NoNewsUniqueConstraint(slug, exceptId) == FALSE

\* news.slug is UNIQUE
NewsUniqueViolation(slug, exceptId) ==
    \E id \in DOMAIN newsTable \ {exceptId} : newsTable[id].slug = slug

DuplicateKey(constraint) ==
    "duplicate key value violates unique constraint " \o constraint

ForeignKey(table, constraint) ==
    "insert or update on table " \o table \o " violates foreign key constraint " \o constraint

StillReferenced(table, constraint, other) ==
    "update or delete on table " \o table \o " violates foreign key constraint "
        \o constraint \o " on table " \o other

\* news.category_id REFERENCES categories(id), news.author_id REFERENCES users(id)
NewsForeignKeyViolation(category_id, author_id) ==
    IF category_id \notin DOMAIN categoriesTable THEN "news_category_id_categories_id_fk"
    ELSE IF author_id \notin DOMAIN usersTable THEN "news_author_id_users_id_fk"
    ELSE ""

\* a comments table without its foreign keys
NoCommentsForeignKey(news_id, user_id) == ""

\* comments.news_id REFERENCES news(id), comments.user_id REFERENCES users(id)
CommentsForeignKeyViolation(news_id, user_id) ==
    IF news_id \notin DOMAIN newsTable THEN "comments_news_id_news_id_fk"
    ELSE IF user_id \notin DOMAIN usersTable THEN "comments_user_id_users_id_fk"
    ELSE ""

\* rows that still reference a category / a news row block its deletion
CategoryReferenced(id) == \E n \in DOMAIN newsTable : newsTable[n].category_id = id
NewsReferenced(id) == \E c \in DOMAIN commentsTable : commentsTable[c].news_id = id

\* zod defaults applied by the procedure before the handler runs
ParseCreateUserInput(raw) ==
    IF "role" \in DOMAIN raw THEN raw ELSE raw @@ [role |-> "user"]

ParseCreateNewsInput(raw) ==
    IF "status" \in DOMAIN raw THEN raw ELSE raw @@ [status |-> "draft"]

---------------------------------------------------------------------------
(* Queries *)

\* the orders in which a scan may deliver the rows ids
ScanOrders(ids) ==
    {order \in [1..Cardinality(ids) -> ids] :
        \A i, j \in 1..Cardinality(ids) : order[i] = order[j] => i = j}

\* .limit(limit).offset(offset) on a list of rows
Window(rows, limit, offset) ==
    IF offset >= Len(rows) THEN <<>>
    ELSE SubSeq(rows, offset + 1,
                IF offset + limit < Len(rows) THEN offset + limit ELSE Len(rows))

\* the rows of table t with their ids in ids, in the order of the scan
Rows(t, ids, order) ==
    LET kept == SelectSeq(order, LAMBDA id : id \in ids)
    IN  [i \in 1..Len(kept) |-> t[kept[i]]]

---------------------------------------------------------------------------
(* Password hashing *)

\* createHash('sha256').update(x).digest('hex'): an uninterpreted, injective
\* digest; its value is a string that is never the argument itself
Sha256Hex(x) == "sha256(" \o x \o ")"

\* a hash made with one fixed salt instead of the salt of the call
StaticSaltHash(password, salt) == Sha256Hex(password \o "pepper") \o ":" \o "pepper"

\* the value createUser stores: digest of password + salt, ':' and the salt
HashPassword(password, salt) == Sha256Hex(password \o salt) \o ":" \o salt

---------------------------------------------------------------------------
(* User handlers *)

\* db.insert(usersTable).values(...).returning(): the id is drawn from the
\* sequence before the constraints are checked
InsertUser(values) ==
    LET violation == UsersUniqueViolation(values.username, values.email, 0)
        row == [id |-> serial.users,
                username |-> values.username,
                email |-> values.email,
                password_hash |-> values.password_hash,
                full_name |-> values.full_name,
                avatar |-> values.avatar,
                role |-> values.role,
                is_active |-> TRUE,
                created_at |-> now,
                updated_at |-> now]
    IN  IF violation # ""
        THEN [out |-> Err(DuplicateKey(violation)), users |-> usersTable]
        ELSE [out |-> Ok(row), users |-> usersTable @@ (row.id :> row)]

createUser(input, salt) ==
    InsertUser([username |-> input.username,
                email |-> input.email,
                password_hash |-> HashPassword(input.password, salt),
                full_name |-> OrNull(input, "full_name"),
                avatar |-> OrNull(input, "avatar"),
                role |-> input.role])

\* a delete of the row in place of the update of its flag
HardDeleteWhere(id) == Remove(usersTable, {id})

\* db.update(usersTable).set({is_active: false, updated_at}).where(id).returning()
SoftDeleteWhere(id) ==
    [u \in DOMAIN usersTable |->
        IF u = id
        THEN [usersTable[u] EXCEPT !.is_active = FALSE, !.updated_at = now]
        ELSE usersTable[u]]

deleteUser(id) ==
    [out |-> Ok(id \in DOMAIN usersTable), users |-> SoftDeleteWhere(id)]

\* a projection that keeps every column
WithPassword(user) == user

\* the row without its password_hash column
WithoutPassword(user) ==
    [f \in DOMAIN user \ {"password_hash"} |-> user[f]]

\* the comparison login makes between the stored column and the input
PasswordAccepted(user, password) == user.password_hash = password

login(input) ==
    LET users == {id \in DOMAIN usersTable : usersTable[id].email = input.email}
    IN  IF users = {} THEN Ok(Null)
        ELSE LET user == First(usersTable, users)
             IN  IF ~user.is_active THEN Ok(Null)
                 ELSE IF ~PasswordAccepted(user, input.password) THEN Ok(Null)
                 ELSE Ok(Some(WithoutPassword(user)))

\* updateUser: existence check, username/email collision check against the
\* other users, then a partial update that always refreshes updated_at
UserUpdateData(input, row) ==
    [f \in DOMAIN row |->
        IF f = "updated_at" THEN now
        ELSE IF f \in DOMAIN input \ {"id"} THEN input[f]
        ELSE row[f]]

updateUser(input) ==
    IF input.id \notin DOMAIN usersTable
    THEN [out |-> Err("User with id " \o ToString(input.id) \o " not found"),
          users |-> usersTable]
    ELSE LET row == usersTable[input.id]
             username == IF "username" \in DOMAIN input THEN input.username ELSE row.username
             email == IF "email" \in DOMAIN input THEN input.email ELSE row.email
             violation == UsersUniqueViolation(username, email, input.id)
             updated == UserUpdateData(input, row)
         IN  IF violation = "users_username_unique"
             THEN [out |-> Err("Username '" \o username \o "' already exists"),
                   users |-> usersTable]
             ELSE IF violation = "users_email_unique"
             THEN [out |-> Err("Email '" \o email \o "' already exists"),
                   users |-> usersTable]
             ELSE [out |-> Ok(updated),
                   users |-> [usersTable EXCEPT ![input.id] = updated]]

\* const { limit = 20, offset = 0 } = input || {}
DefaultLimit == 20
DefaultOffset == 0
LimitOf(input) == IF "limit" \in DOMAIN input THEN input.limit ELSE DefaultLimit
OffsetOf(input) == IF "offset" \in DOMAIN input THEN input.offset ELSE DefaultOffset

\* getUsers on the table users, whose scan delivers the rows in order: the
\* window of the rows, each without its password_hash
getUsers(users, input, order) ==
    LET results == Window(Rows(users, DOMAIN users, order), LimitOf(input), OffsetOf(input))
    IN  Ok([i \in 1..Len(results) |-> WithoutPassword(results[i])])

getUserById(users, id) ==
    LET results == {u \in DOMAIN users : u = id}
    IN  IF results = {} THEN Ok(Null)
        ELSE Ok(Some(WithoutPassword(First(users, results))))

---------------------------------------------------------------------------
(* Category handlers *)

\* createCategory: the insert, whose UNIQUE(slug) violation is the conflict
createCategory(input) ==
    LET row == [id |-> serial.categories,
                name |-> input.name,
                slug |-> input.slug,
                description |-> OrNull(input, "description"),
                created_at |-> now,
                updated_at |-> now]
    IN  IF CategoriesUniqueViolation(input.slug, 0)
        THEN [out |-> Err(DuplicateKey("categories_slug_unique")),
              categories |-> categoriesTable]
        ELSE [out |-> Ok(row), categories |-> categoriesTable @@ (row.id :> row)]

\* db.delete(categoriesTable).where(eq(id)): refused by the foreign key of
\* news.category_id while a news row references the category
DeleteCategoryWhere(id) ==
    IF id \in DOMAIN categoriesTable /\ CategoryReferenced(id)
    THEN [error |-> StillReferenced("categories", "news_category_id_categories_id_fk", "news"),
          rowCount |-> 0,
          categories |-> categoriesTable]
    ELSE [error |-> "",
          rowCount |-> Cardinality(DOMAIN categoriesTable \cap {id}),
          categories |-> Remove(categoriesTable, {id})]

\* a guard that looks only at the published news of the category
PublishedNewsOnly(id) ==
    {n \in DOMAIN newsTable :
        newsTable[n].category_id = id /\ newsTable[n].status = "published"}

\* the guard of deleteCategory: select from news where category_id = id limit 1
AssociatedNews(id) == {n \in DOMAIN newsTable : newsTable[n].category_id = id}

deleteCategory(id) ==
    IF id \notin DOMAIN categoriesTable
    THEN [out |-> Ok(FALSE), categories |-> categoriesTable]
    ELSE IF AssociatedNews(id) # {}
    THEN [out |-> Ok(FALSE), categories |-> categoriesTable]
    ELSE LET result == DeleteCategoryWhere(id)
         IN  IF result.error # ""
             THEN [out |-> Err(result.error), categories |-> result.categories]
             ELSE [out |-> Ok(result.rowCount > 0), categories |-> result.categories]

---------------------------------------------------------------------------
(* News handlers *)

NewsById(news, id) == {n \in DOMAIN news : n = id}
NewsBySlug(news, slug) == {n \in DOMAIN news : news[n].slug = slug}

\* db.insert(newsTable).values(...).returning()
InsertNews(values) ==
    LET fk == NewsForeignKeyViolation(values.category_id, values.author_id)
        row == [id |-> serial.news,
                title |-> values.title,
                slug |-> values.slug,
                content |-> values.content,
                excerpt |-> values.excerpt,
                featured_image |-> values.featured_image,
                category_id |-> values.category_id,
                author_id |-> values.author_id,
                status |-> values.status,
                views_count |-> 0,
                published_at |-> values.published_at,
                created_at |-> now,
                updated_at |-> now]
    IN  IF NewsUniqueViolation(values.slug, 0)
        THEN [out |-> Err(DuplicateKey("news_slug_unique")), news |-> newsTable]
        ELSE IF fk # ""
        THEN [out |-> Err(ForeignKey("news", fk)), news |-> newsTable]
        ELSE [out |-> Ok(row), news |-> newsTable @@ (row.id :> row)]

NewsValues(input) ==
    [title |-> input.title,
     slug |-> input.slug,
     content |-> input.content,
     excerpt |-> OrNull(input, "excerpt"),
     featured_image |-> OrNull(input, "featured_image"),
     category_id |-> input.category_id,
     author_id |-> input.author_id,
     status |-> input.status,
     published_at |-> DateOrNull(input, "published_at")]

\* the three checks createNews makes before its insert; "" when all pass
CreateNewsCategoryError(input) ==
    IF input.category_id \notin DOMAIN categoriesTable
    THEN "Category with id " \o ToString(input.category_id) \o " does not exist"
    ELSE ""

\* createNews without its author check
NoAuthorCheck(input) == ""

CreateNewsAuthorError(input) ==
    IF input.author_id \notin DOMAIN usersTable
    THEN "User with id " \o ToString(input.author_id) \o " does not exist"
    ELSE ""

\* createNews without its slug check
NoSlugCheck(input) == ""

CreateNewsSlugError(input) ==
    IF NewsBySlug(newsTable, input.slug) # {}
    THEN "News with slug '" \o input.slug \o "' already exists"
    ELSE ""

createNews(input) ==
    IF CreateNewsCategoryError(input) # ""
    THEN [out |-> Err(CreateNewsCategoryError(input)), news |-> newsTable, inserted |-> FALSE]
    ELSE IF CreateNewsAuthorError(input) # ""
    THEN [out |-> Err(CreateNewsAuthorError(input)), news |-> newsTable, inserted |-> FALSE]
    ELSE IF CreateNewsSlugError(input) # ""
    THEN [out |-> Err(CreateNewsSlugError(input)), news |-> newsTable, inserted |-> FALSE]
    ELSE InsertNews(NewsValues(input)) @@ [inserted |-> TRUE]

\* an update that writes a count computed from a fresh row instead of
\* adding to the stored one
OverwriteViewsWhere(news, ids) ==
    [n \in DOMAIN news |->
        IF n \in ids THEN [news[n] EXCEPT !.views_count = 1] ELSE news[n]]

\* an increment that also stamps updated_at
IncrementViewsTouching(news, ids) ==
    [n \in DOMAIN news |->
        IF n \in ids
        THEN [news[n] EXCEPT !.views_count = @ + 1, !.updated_at = now]
        ELSE news[n]]

\* .set({ views_count: sql`views_count + 1` }) on the rows in ids: one
\* statement, evaluated by the store against the row's current value
IncrementViewsWhere(news, ids) ==
    [n \in DOMAIN news |->
        IF n \in ids THEN [news[n] EXCEPT !.views_count = @ + 1] ELSE news[n]]

\* results[0] || null
FirstOrNull(news, ids) == IF ids = {} THEN Null ELSE Some(First(news, ids))

\* a lookup that reads the row before it increments the counter
getNewsByIdReadFirst(id) ==
    [out |-> Ok(FirstOrNull(newsTable, NewsById(newsTable, id))),
     news |-> IncrementViewsWhere(newsTable, NewsById(newsTable, id))]

getNewsById(id) ==
    LET updated == IncrementViewsWhere(newsTable, NewsById(newsTable, id))
    IN  [out |-> Ok(FirstOrNull(updated, NewsById(updated, id))), news |-> updated]

getNewsBySlug(input) ==
    LET updated == IncrementViewsWhere(newsTable, NewsBySlug(newsTable, input.slug))
    IN  [out |-> Ok(FirstOrNull(updated, NewsBySlug(updated, input.slug))), news |-> updated]

\* updateData: updated_at and the fields the input supplies (!== undefined)
\* an update object built with truthiness tests: a null is left out
UpdateDataSkippingNull(input) ==
    [f \in {g \in DOMAIN input \ {"id"} :
                g \notin {"excerpt", "featured_image", "published_at"} \/ input[g] # Null}
           \cup {"updated_at"} |->
        IF f = "updated_at" THEN now ELSE input[f]]

\* an update object that also puts the view counter back to zero
UpdateDataResettingViews(input) ==
    [f \in (DOMAIN input \ {"id"}) \cup {"updated_at", "views_count"} |->
        IF f = "updated_at" THEN now ELSE IF f = "views_count" THEN 0 ELSE input[f]]

NewsUpdateData(input) ==
    [f \in (DOMAIN input \ {"id"}) \cup {"updated_at"} |->
        IF f = "updated_at" THEN now ELSE input[f]]

ApplyUpdate(row, data) ==
    [f \in DOMAIN row |-> IF f \in DOMAIN data THEN data[f] ELSE row[f]]

\* db.update(newsTable).set(updateData).where(eq(id)).returning(), under the
\* table's UNIQUE(slug) and its foreign key to categories
UpdateNewsWhere(id, data) ==
    IF id \notin DOMAIN newsTable
    THEN [error |-> "", rows |-> <<>>, news |-> newsTable]
    ELSE LET updated == ApplyUpdate(newsTable[id], data)
         IN  IF NewsUniqueViolation(updated.slug, id)
             THEN [error |-> DuplicateKey("news_slug_unique"), rows |-> <<>>,
                   news |-> newsTable]
             ELSE IF NewsForeignKeyViolation(updated.category_id, updated.author_id) # ""
             THEN [error |-> ForeignKey("news",
                                NewsForeignKeyViolation(updated.category_id, updated.author_id)),
                   rows |-> <<>>, news |-> newsTable]
             ELSE [error |-> "", rows |-> <<updated>>,
                   news |-> [newsTable EXCEPT ![id] = updated]]

\* the checks updateNews makes before its update; "" when they pass
UpdateNewsExistsError(input) ==
    IF NewsById(newsTable, input.id) = {}
    THEN "News article with id " \o ToString(input.id) \o " not found"
    ELSE ""

UpdateNewsCategoryError(input) ==
    IF "category_id" \in DOMAIN input /\ input.category_id \notin DOMAIN categoriesTable
    THEN "Category with id " \o ToString(input.category_id) \o " not found"
    ELSE ""

\* a slug check without ne(newsTable.id, input.id)
SlugErrorCountingOwn(input) ==
    IF "slug" \in DOMAIN input /\ NewsBySlug(newsTable, input.slug) # {}
    THEN "News article with slug '" \o input.slug \o "' already exists"
    ELSE ""

UpdateNewsSlugError(input) ==
    IF "slug" \in DOMAIN input
       /\ {n \in NewsBySlug(newsTable, input.slug) : n # input.id} # {}
    THEN "News article with slug '" \o input.slug \o "' already exists"
    ELSE ""

\* result[0] of the update: undefined when no row was updated
UpdateOutcome(result) ==
    IF result.error # "" THEN Err(result.error)
    ELSE IF result.rows = <<>> THEN Ok("undefined")
    ELSE Ok(result.rows[1])

updateNews(input) ==
    IF UpdateNewsExistsError(input) # ""
    THEN [out |-> Err(UpdateNewsExistsError(input)), news |-> newsTable]
    ELSE IF UpdateNewsCategoryError(input) # ""
    THEN [out |-> Err(UpdateNewsCategoryError(input)), news |-> newsTable]
    ELSE IF UpdateNewsSlugError(input) # ""
    THEN [out |-> Err(UpdateNewsSlugError(input)), news |-> newsTable]
    ELSE LET result == UpdateNewsWhere(input.id, NewsUpdateData(input))
         IN  [out |-> UpdateOutcome(result), news |-> result.news]

\* desc() on a nullable column: postgres puts the nulls first
DescNullable(a, b) ==
    IF a = Null THEN TRUE ELSE IF b = Null THEN FALSE ELSE a[1] >= b[1]

\* orderBy(desc(published_at)), orderBy(desc(created_at)) and
\* orderBy(desc(views_count)): rows that compare equal come in any order
ByPublishedAtDesc(t, order) ==
    \A i, j \in DOMAIN order :
        i < j => DescNullable(t[order[i]].published_at, t[order[j]].published_at)
ByCreatedAtDesc(t, order) ==
    \A i, j \in DOMAIN order : i < j => t[order[i]].created_at >= t[order[j]].created_at
ByViewsDesc(t, order) ==
    \A i, j \in DOMAIN order : i < j => t[order[i]].views_count >= t[order[j]].views_count

\* the rows of every status
AnyStatusIds == DOMAIN newsTable

\* where(eq(newsTable.status, 'published'))
PublishedIds == {n \in DOMAIN newsTable : newsTable[n].status = "published"}

\* paginationInputSchema: limit an integer in 1..100, offset one >= 0
MinLimit == 1
MaxLimit == 100
PaginationValid(raw) ==
    /\ "limit" \in DOMAIN raw => raw.limit \in MinLimit..MaxLimit
    /\ "offset" \in DOMAIN raw => raw.offset >= 0

\* a listing that always starts at the first row
getNewsFirstPage(input, order) ==
    Ok(Window(Rows(newsTable, PublishedIds, order), LimitOf(input), 0))

getNews(input, order) ==
    Ok(Window(Rows(newsTable, PublishedIds, order), LimitOf(input), OffsetOf(input)))

getAllNews(input, order) ==
    Ok(Window(Rows(newsTable, DOMAIN newsTable, order), LimitOf(input), OffsetOf(input)))

\* zod's defaults for limit and offset, applied by the procedure
ParseWindow(raw) == raw @@ [limit |-> DefaultLimit, offset |-> DefaultOffset]

\* getNewsByCategory: by id when the id is truthy, else by slug through
\* the join with categories, else nothing
getNewsByCategory(input, order) ==
    IF "category_id" \in DOMAIN input /\ input.category_id # 0
    THEN Ok(Window(Rows(newsTable,
                        {n \in PublishedIds :
                            newsTable[n].category_id = input.category_id},
                        order),
                   input.limit, input.offset))
    ELSE IF "category_slug" \in DOMAIN input /\ input.category_slug # ""
    THEN Ok(Window(Rows(newsTable,
                        {n \in PublishedIds :
                            /\ newsTable[n].category_id \in DOMAIN categoriesTable
                            /\ categoriesTable[newsTable[n].category_id].slug
                                  = input.category_slug},
                        order),
                   input.limit, input.offset))
    ELSE Ok(<<>>)

\* getFeaturedNews = async (limit = 5)
FeaturedLimit == 5

\* a featured listing that takes the published rows as the scan finds them
getFeaturedNewsUnsorted(limit, order) ==
    IF limit < 0 THEN Err("LIMIT must not be negative")
    ELSE LET ids == PublishedIds
             byId == [i \in 1..Cardinality(ids) |->
                        CHOOSE n \in ids : Cardinality({k \in ids : k < n}) = i - 1]
         IN  Ok(Window([i \in DOMAIN byId |-> newsTable[byId[i]]], limit, 0))

\* .limit(limit) with a negative limit is refused by the database
getFeaturedNews(limit, order) ==
    IF limit < 0 THEN Err("LIMIT must not be negative")
    ELSE Ok(Window(Rows(newsTable, PublishedIds, order), limit, 0))

\* Texts that are searched are sequences of one-character strings.
LowerOf ==
    [c \in {"A", "B", "C", "J", "S", "X"} |->
        CASE c = "A" -> "a" [] c = "B" -> "b" [] c = "C" -> "c"
          [] c = "J" -> "j" [] c = "S" -> "s" [] c = "X" -> "x"]
Lower(c) == IF c \in DOMAIN LowerOf THEN LowerOf[c] ELSE c
LowerText(text) == [i \in DOMAIN text |-> Lower(text[i])]

\* LIKE: % stands for any run of characters, _ for any one character, and
\* a backslash makes the next character of the pattern stand for itself
RECURSIVE LikeMatch(_, _)
LikeMatch(text, pattern) ==
    IF pattern = <<>> THEN text = <<>>
    ELSE IF Head(pattern) = "%"
    THEN \/ LikeMatch(text, Tail(pattern))
         \/ text # <<>> /\ LikeMatch(Tail(text), pattern)
    ELSE IF Head(pattern) = "_"
    THEN text # <<>> /\ LikeMatch(Tail(text), Tail(pattern))
    ELSE IF Head(pattern) = "\\"
    THEN /\ Len(pattern) >= 2
         /\ text # <<>>
         /\ Head(text) = pattern[2]
         /\ LikeMatch(Tail(text), Tail(Tail(pattern)))
    ELSE /\ text # <<>>
         /\ Head(text) = Head(pattern)
         /\ LikeMatch(Tail(text), Tail(pattern))

\* ilike(column, pattern): LIKE without regard to case
ILike(text, pattern) == LikeMatch(LowerText(text), LowerText(pattern))

\* const searchTerm = `%${input.query}%`
SearchTerm(query) == <<"%">> \o query \o <<"%">>

\* searchNews: news joined with categories and users, where published, and
\* title or content ilike the term, and the category when it is given
searchNews(input, order) ==
    Ok(Window(Rows(newsTable,
                   {n \in PublishedIds :
                       /\ newsTable[n].category_id \in DOMAIN categoriesTable
                       /\ newsTable[n].author_id \in DOMAIN usersTable
                       /\ \/ ILike(newsTable[n].title, SearchTerm(input.query))
                          \/ ILike(newsTable[n].content, SearchTerm(input.query))
                       /\ "category_id" \in DOMAIN input
                             => newsTable[n].category_id = input.category_id},
                   order),
              input.limit, input.offset))

\* updateCategory: the update object, with only the provided fields
CategoryUpdateData(input) ==
    [f \in (DOMAIN input \ {"id"}) \cup {"updated_at"} |->
        IF f = "updated_at" THEN now ELSE input[f]]

\* db.update(categoriesTable).set(updateData).where(eq(id)).returning(),
\* under the table's UNIQUE(slug)
UpdateCategoryWhere(id, data) ==
    IF id \notin DOMAIN categoriesTable
    THEN [error |-> "", rows |-> <<>>, categories |-> categoriesTable]
    ELSE LET updated == ApplyUpdate(categoriesTable[id], data)
         IN  IF CategoriesUniqueViolation(updated.slug, id)
             THEN [error |-> DuplicateKey("categories_slug_unique"), rows |-> <<>>,
                   categories |-> categoriesTable]
             ELSE [error |-> "", rows |-> <<updated>>,
                   categories |-> [categoriesTable EXCEPT ![id] = updated]]

\* the checks updateCategory makes before its update; "" when they pass
UpdateCategoryExistsError(input) ==
    IF {c \in DOMAIN categoriesTable : c = input.id} = {}
    THEN "Category with id " \o ToString(input.id) \o " not found"
    ELSE ""

\* a slug check without duplicateSlugCategory[0].id !== input.id
CategorySlugErrorCountingOwn(input) ==
    IF "slug" \in DOMAIN input /\ input.slug # ""
       /\ {c \in DOMAIN categoriesTable : categoriesTable[c].slug = input.slug} # {}
    THEN "Category with slug '" \o input.slug \o "' already exists"
    ELSE ""

\* if (input.slug): the rows with that slug, the first of them another row
UpdateCategorySlugError(input) ==
    LET duplicateSlugCategory ==
            {c \in DOMAIN categoriesTable : categoriesTable[c].slug = input.slug}
    IN  IF "slug" \in DOMAIN input /\ input.slug # ""
           /\ duplicateSlugCategory # {}
           /\ First(categoriesTable, duplicateSlugCategory).id # input.id
        THEN "Category with slug '" \o input.slug \o "' already exists"
        ELSE ""

updateCategory(input) ==
    IF UpdateCategoryExistsError(input) # ""
    THEN [out |-> Err(UpdateCategoryExistsError(input)), categories |-> categoriesTable]
    ELSE IF UpdateCategorySlugError(input) # ""
    THEN [out |-> Err(UpdateCategorySlugError(input)), categories |-> categoriesTable]
    ELSE LET result == UpdateCategoryWhere(input.id, CategoryUpdateData(input))
         IN  [out |-> UpdateOutcome(result), categories |-> result.categories]

\* a delete of the comments without its where clause
DeleteEveryComment(comments, id) == Remove(comments, DOMAIN comments)

\* db.delete(commentsTable).where(eq(commentsTable.news_id, id))
DeleteCommentsOfNews(comments, id) ==
    Remove(comments, {c \in DOMAIN comments : comments[c].news_id = id})

\* db.delete(newsTable).where(eq(newsTable.id, id)): refused by the foreign
\* key of comments.news_id while a comment references the row
DeleteNewsWhere(news, comments, id) ==
    IF id \in DOMAIN news /\ (\E c \in DOMAIN comments : comments[c].news_id = id)
    THEN [error |-> StillReferenced("news", "comments_news_id_news_id_fk", "comments"),
          news |-> news]
    ELSE [error |-> "", news |-> Remove(news, {id})]

deleteNews(id) ==
    IF NewsById(newsTable, id) = {}
    THEN [out |-> Ok(FALSE), news |-> newsTable, comments |-> commentsTable]
    ELSE LET comments == DeleteCommentsOfNews(commentsTable, id)
             result == DeleteNewsWhere(newsTable, comments, id)
         IN  [out |-> IF result.error # "" THEN Err(result.error) ELSE Ok(TRUE),
              news |-> result.news,
              comments |-> comments]

---------------------------------------------------------------------------
(* Comment handlers *)

\* a createComment that inserts without looking the news row up
createCommentUncheckedNews(input) ==
    LET row == [id |-> serial.comments,
                content |-> input.content,
                news_id |-> input.news_id,
                user_id |-> input.user_id,
                status |-> "pending",
                created_at |-> now,
                updated_at |-> now]
    IN  IF input.user_id \notin DOMAIN usersTable
        THEN [out |-> Err("User with id " \o ToString(input.user_id) \o " not found"),
              comments |-> commentsTable, inserted |-> FALSE]
        ELSE [out |-> Ok(row), comments |-> commentsTable @@ (row.id :> row),
              inserted |-> TRUE]

\* createComment: the user check, the news check, then the insert with the
\* status left to the column default
createComment(input) ==
    LET row == [id |-> serial.comments,
                content |-> input.content,
                news_id |-> input.news_id,
                user_id |-> input.user_id,
                status |-> "pending",
                created_at |-> now,
                updated_at |-> now]
    IN  IF input.user_id \notin DOMAIN usersTable
        THEN [out |-> Err("User with id " \o ToString(input.user_id) \o " not found"),
              comments |-> commentsTable, inserted |-> FALSE]
        ELSE IF input.news_id \notin DOMAIN newsTable
        THEN [out |-> Err("News article with id " \o ToString(input.news_id) \o " not found"),
              comments |-> commentsTable, inserted |-> FALSE]
        ELSE [out |-> Ok(row), comments |-> commentsTable @@ (row.id :> row),
              inserted |-> TRUE]

\* db.delete(commentsTable).where(eq(commentsTable.id, id)); rowCount > 0
deleteComment(id) ==
    [out |-> Ok(Cardinality(DOMAIN commentsTable \cap {id}) > 0),
     comments |-> Remove(commentsTable, {id})]

CommentNotFound(id) == "Comment with id " \o ToString(id) \o " not found"

\* updateComment: the update object, with only the provided fields
CommentUpdateData(input) ==
    [f \in (DOMAIN input \ {"id"}) \cup {"updated_at"} |->
        IF f = "updated_at" THEN now ELSE input[f]]

\* db.update(commentsTable).set(data).where(eq(commentsTable.id, id))
UpdateCommentWhere(id, data) ==
    [c \in DOMAIN commentsTable |->
        IF c = id THEN ApplyUpdate(commentsTable[c], data) ELSE commentsTable[c]]

updateComment(input) ==
    IF {c \in DOMAIN commentsTable : c = input.id} = {}
    THEN [out |-> Err(CommentNotFound(input.id)), comments |-> commentsTable]
    ELSE LET updated == UpdateCommentWhere(input.id, CommentUpdateData(input))
         IN  [out |-> Ok(updated[input.id]), comments |-> updated]

\* z.enum(['approved', 'rejected']) of the moderateComment procedure
ModerationStatuses == {"approved", "rejected"}

\* a moderation that also puts the comment back to its first content
ModerationDataResetting(status) ==
    [status |-> status, updated_at |-> now, content |-> "hi"]

\* moderateComment: .set({status, updated_at: new Date()})
ModerationData(status) == [status |-> status, updated_at |-> now]

moderateComment(id, status) ==
    IF {c \in DOMAIN commentsTable : c = id} = {}
    THEN [out |-> Err(CommentNotFound(id)), comments |-> commentsTable]
    ELSE LET updated == UpdateCommentWhere(id, ModerationData(status))
         IN  [out |-> Ok(updated[id]), comments |-> updated]

\* input?.limit || 20 and input?.offset || 0
LimitOr(input) ==
    IF "limit" \in DOMAIN input /\ input.limit # 0 THEN input.limit ELSE DefaultLimit
OffsetOr(input) ==
    IF "offset" \in DOMAIN input /\ input.offset # 0 THEN input.offset ELSE DefaultOffset

\* the comments of a news id whatever their status
CommentsOf(newsId) ==
    {c \in DOMAIN commentsTable :
        /\ commentsTable[c].user_id \in DOMAIN usersTable
        /\ commentsTable[c].news_id = newsId}

\* comments inner join users where news_id = newsId and status = 'approved'
ApprovedCommentsOf(newsId) ==
    {c \in DOMAIN commentsTable :
        /\ commentsTable[c].user_id \in DOMAIN usersTable
        /\ commentsTable[c].news_id = newsId
        /\ commentsTable[c].status = "approved"}

\* orderBy(desc(created_at)): the rows come newest first, equal times in
\* any order
NewestFirst(t, order) ==
    \A i, j \in DOMAIN order : i < j => t[order[i]].created_at >= t[order[j]].created_at

\* the comment with the user's public fields beside it
WithUser(comment) ==
    comment @@ [user |-> [id |-> usersTable[comment.user_id].id,
                          username |-> usersTable[comment.user_id].username,
                          full_name |-> usersTable[comment.user_id].full_name,
                          avatar |-> usersTable[comment.user_id].avatar]]

getCommentsByNewsId(newsId, input, order) ==
    LET results == Window(Rows(commentsTable, ApprovedCommentsOf(newsId), order),
                          LimitOr(input), OffsetOr(input))
    IN  Ok([i \in 1..Len(results) |-> WithUser(results[i])])

---------------------------------------------------------------------------
(* The store after construction, and the atomic calls *)

Idle == [pc |-> "idle", op |-> "none"]

\* the processes that issue statement-level calls
Readers == 1..NReaders
Writers == {NReaders + 1, NReaders + 2}
Procs == Readers \cup Writers

NoCall == [op |-> "none", input |-> <<>>, out |-> Ok(Null)]

Init ==
    /\ usersTable = <<>>
    /\ categoriesTable = <<>>
    /\ newsTable = <<>>
    /\ commentsTable = <<>>
    /\ serial = [users |-> 1, categories |-> 1, news |-> 1, comments |-> 1]
    /\ now = 0
    /\ last = NoCall
    /\ proc = [p \in Procs |-> Idle]
    /\ served = <<>>

Quiet == \A p \in Procs : proc[p].pc \in {"idle", "done"}

CreateUser(raw, salt) ==
    LET r == createUser(ParseCreateUserInput(raw), salt)
    IN  /\ serial.users <= MaxUsers
        /\ usersTable' = r.users
        /\ serial' = [serial EXCEPT !.users = @ + 1]
        /\ last' = [op |-> "createUser", input |-> raw, out |-> r.out]
        /\ UNCHANGED <<categoriesTable, newsTable, commentsTable, now, proc, served>>

DeleteUser(id) ==
    LET r == deleteUser(id)
    IN  /\ usersTable' = r.users
        /\ last' = [op |-> "deleteUser", input |-> [id |-> id], out |-> r.out]
        /\ UNCHANGED <<categoriesTable, newsTable, commentsTable, serial, now, proc, served>>

UpdateUser(input) ==
    LET r == updateUser(input)
    IN  /\ usersTable' = r.users
        /\ last' = [op |-> "updateUser", input |-> input, out |-> r.out]
        /\ UNCHANGED <<categoriesTable, newsTable, commentsTable, serial, now, proc, served>>

Login(input) ==
    /\ last' = [op |-> "login", input |-> input, out |-> login(input)]
    /\ UNCHANGED <<tables, now, proc, served>>

\* time passes between calls
Tick ==
    /\ now < MaxNow
    /\ now' = now + 1
    /\ UNCHANGED <<tables, last, proc, served>>

GetUsers(input, order) ==
    /\ last' = [op |-> "getUsers", input |-> input, out |-> getUsers(usersTable, input, order)]
    /\ UNCHANGED <<tables, now, proc, served>>

GetUserById(id) ==
    /\ last' = [op |-> "getUserById", input |-> [id |-> id],
                out |-> getUserById(usersTable, id)]
    /\ UNCHANGED <<tables, now, proc, served>>

CreateCategory(input) ==
    LET r == createCategory(input)
    IN  /\ serial.categories <= MaxCategories
        /\ categoriesTable' = r.categories
        /\ serial' = [serial EXCEPT !.categories = @ + 1]
        /\ last' = [op |-> "createCategory", input |-> input, out |-> r.out]
        /\ UNCHANGED <<usersTable, newsTable, commentsTable, now, proc, served>>

UpdateCategory(input) ==
    LET r == updateCategory(input)
    IN  /\ categoriesTable' = r.categories
        /\ last' = [op |-> "updateCategory", input |-> input, out |-> r.out]
        /\ UNCHANGED <<usersTable, newsTable, commentsTable, serial, now, proc, served>>

DeleteCategory(id) ==
    LET r == deleteCategory(id)
    IN  /\ categoriesTable' = r.categories
        /\ last' = [op |-> "deleteCategory", input |-> [id |-> id], out |-> r.out]
        /\ UNCHANGED <<usersTable, newsTable, commentsTable, serial, now, proc, served>>

CreateNews(raw) ==
    LET r == createNews(ParseCreateNewsInput(raw))
    IN  /\ serial.news <= MaxNews
        /\ newsTable' = r.news
        /\ serial' = [serial EXCEPT !.news = IF r.inserted THEN @ + 1 ELSE @]
        /\ last' = [op |-> "createNews", input |-> raw, out |-> r.out]
        /\ UNCHANGED <<usersTable, categoriesTable, commentsTable, now, proc, served>>

UpdateNews(input) ==
    LET r == updateNews(input)
    IN  /\ newsTable' = r.news
        /\ last' = [op |-> "updateNews", input |-> input, out |-> r.out]
        /\ UNCHANGED <<usersTable, categoriesTable, commentsTable, serial, now, proc, served>>

\* the procedure parses the pagination before it calls the handler
GetNews(input, order) ==
    /\ ByPublishedAtDesc(newsTable, order)
    /\ last' = [op |-> "getNews", input |-> input,
                out |-> IF PaginationValid(input) THEN getNews(input, order)
                        ELSE Err("Invalid input")]
    /\ UNCHANGED <<tables, now, proc, served>>

GetAllNews(input, order) ==
    /\ ByCreatedAtDesc(newsTable, order)
    /\ last' = [op |-> "getAllNews", input |-> input, out |-> getAllNews(input, order)]
    /\ UNCHANGED <<tables, now, proc, served>>

\* .refine(data => data.category_id || data.category_slug)
CategoryFilterValid(raw) ==
    \/ "category_id" \in DOMAIN raw /\ raw.category_id # 0
    \/ "category_slug" \in DOMAIN raw /\ raw.category_slug # ""

\* the procedure parses the input before it calls the handler
GetNewsByCategory(raw, order) ==
    /\ ByPublishedAtDesc(newsTable, order)
    /\ last' = [op |-> "getNewsByCategory", input |-> raw,
                out |-> IF CategoryFilterValid(raw)
                        THEN getNewsByCategory(ParseWindow(raw), order)
                        ELSE Err("Either category_id or category_slug must be provided")]
    /\ UNCHANGED <<tables, now, proc, served>>

\* getFeaturedNews(input?.limit)
GetFeaturedNews(raw, order) ==
    /\ ByViewsDesc(newsTable, order)
    /\ last' = [op |-> "getFeaturedNews", input |-> raw,
                out |-> getFeaturedNews(IF "limit" \in DOMAIN raw THEN raw.limit
                                        ELSE FeaturedLimit, order)]
    /\ UNCHANGED <<tables, now, proc, served>>

SearchNews(raw, order) ==
    /\ ByPublishedAtDesc(newsTable, order)
    /\ last' = [op |-> "searchNews", input |-> raw,
                out |-> searchNews(ParseWindow(raw), order)]
    /\ UNCHANGED <<tables, now, proc, served>>

DeleteNews(id) ==
    LET r == deleteNews(id)
    IN  /\ newsTable' = r.news
        /\ commentsTable' = r.comments
        /\ last' = [op |-> "deleteNews", input |-> [id |-> id], out |-> r.out]
        /\ UNCHANGED <<usersTable, categoriesTable, serial, now, proc, served>>

\* no matched row is at the cap of the counter
BelowCap(ids) == \A n \in ids : newsTable[n].views_count < MaxViews

GetNewsById(id) ==
    LET r == getNewsById(id)
    IN  /\ BelowCap(NewsById(newsTable, id))
        /\ newsTable' = r.news
        /\ last' = [op |-> "getNewsById", input |-> [id |-> id], out |-> r.out]
        /\ UNCHANGED <<usersTable, categoriesTable, commentsTable, serial, now, proc, served>>

GetNewsBySlug(input) ==
    LET r == getNewsBySlug(input)
    IN  /\ BelowCap(NewsBySlug(newsTable, input.slug))
        /\ newsTable' = r.news
        /\ last' = [op |-> "getNewsBySlug", input |-> input, out |-> r.out]
        /\ UNCHANGED <<usersTable, categoriesTable, commentsTable, serial, now, proc, served>>

CreateComment(input) ==
    LET r == createComment(input)
    IN  /\ serial.comments <= MaxComments
        /\ commentsTable' = r.comments
        /\ serial' = [serial EXCEPT !.comments = IF r.inserted THEN @ + 1 ELSE @]
        /\ last' = [op |-> "createComment", input |-> input, out |-> r.out]
        /\ UNCHANGED <<usersTable, categoriesTable, newsTable, now, proc, served>>

UpdateComment(input) ==
    LET r == updateComment(input)
    IN  /\ commentsTable' = r.comments
        /\ last' = [op |-> "updateComment", input |-> input, out |-> r.out]
        /\ UNCHANGED <<usersTable, categoriesTable, newsTable, serial, now, proc, served>>

\* the procedure parses the status before it calls the handler
ModerateComment(raw) ==
    LET r == IF raw.status \in ModerationStatuses
             THEN moderateComment(raw.id, raw.status)
             ELSE [out |-> Err("Invalid enum value"), comments |-> commentsTable]
    IN  /\ commentsTable' = r.comments
        /\ last' = [op |-> "moderateComment", input |-> raw, out |-> r.out]
        /\ UNCHANGED <<usersTable, categoriesTable, newsTable, serial, now, proc, served>>

GetCommentsByNewsId(newsId, input, order) ==
    /\ NewestFirst(commentsTable, order)
    /\ last' = [op |-> "getCommentsByNewsId",
                input |-> [newsId |-> newsId, pagination |-> input],
                out |-> getCommentsByNewsId(newsId, input, order)]
    /\ UNCHANGED <<tables, now, proc, served>>

\* the collation order of the category names
NameOrder == <<"Sports", "Technology", "World">>
NameRank(name) == CHOOSE i \in DOMAIN NameOrder : NameOrder[i] = name

\* getCategories: select from categories order by name asc
GetCategories(order) ==
    /\ \A i, j \in DOMAIN order :
          i < j => NameRank(categoriesTable[order[i]].name)
                      <= NameRank(categoriesTable[order[j]].name)
    /\ last' = [op |-> "getCategories", input |-> <<>>,
                out |-> Ok(Rows(categoriesTable, DOMAIN categoriesTable, order))]
    /\ UNCHANGED <<tables, now, proc, served>>

\* getCategoryById: results.length > 0 ? results[0] : null
GetCategoryById(id) ==
    /\ last' = [op |-> "getCategoryById", input |-> [id |-> id],
                out |-> Ok(IF id \in DOMAIN categoriesTable
                           THEN Some(categoriesTable[id]) ELSE Null)]
    /\ UNCHANGED <<tables, now, proc, served>>

GetCategoryBySlug(slug) ==
    LET ids == {c \in DOMAIN categoriesTable : categoriesTable[c].slug = slug}
    IN  /\ last' = [op |-> "getCategoryBySlug", input |-> [slug |-> slug],
                    out |-> Ok(IF ids = {} THEN Null ELSE Some(First(categoriesTable, ids)))]
        /\ UNCHANGED <<tables, now, proc, served>>

\* comments inner join users inner join news
JoinedComments ==
    {c \in DOMAIN commentsTable :
        /\ commentsTable[c].user_id \in DOMAIN usersTable
        /\ commentsTable[c].news_id \in DOMAIN newsTable}

\* the position of a status in the comment_status enum
StatusRank(status) ==
    CASE status = "pending" -> 1 [] status = "approved" -> 2 [] OTHER -> 3

\* the comment with the user's and the article's fields beside it
WithUserAndNews(comment, userFields) ==
    comment @@ [user |-> [f \in userFields |-> usersTable[comment.user_id][f]],
                news |-> [f \in {"id", "title", "slug"} |-> newsTable[comment.news_id][f]]]

\* getAllComments: order by status desc, created_at desc, then the window
GetAllComments(input, order) ==
    LET results == Window(Rows(commentsTable, JoinedComments, order),
                          LimitOr(input), OffsetOr(input))
    IN  /\ \A i, j \in DOMAIN order :
              i < j =>
                  LET a == commentsTable[order[i]]
                      b == commentsTable[order[j]]
                  IN  \/ StatusRank(a.status) > StatusRank(b.status)
                      \/ /\ a.status = b.status
                         /\ a.created_at >= b.created_at
        /\ last' = [op |-> "getAllComments", input |-> input,
                    out |-> Ok([i \in 1..Len(results) |->
                                  WithUserAndNews(results[i],
                                                  {"id", "username", "full_name"})])]
        /\ UNCHANGED <<tables, now, proc, served>>

\* getPendingComments: where status = 'pending' order by created_at desc
GetPendingComments(input, order) ==
    LET pending == {c \in JoinedComments : commentsTable[c].status = "pending"}
        results == Window(Rows(commentsTable, pending, order),
                          LimitOr(input), OffsetOr(input))
    IN  /\ NewestFirst(commentsTable, order)
        /\ last' = [op |-> "getPendingComments", input |-> input,
                    out |-> Ok([i \in 1..Len(results) |->
                                  WithUserAndNews(results[i],
                                                  {"id", "username", "full_name", "email"})])]
        /\ UNCHANGED <<tables, now, proc, served>>

DeleteComment(id) ==
    LET r == deleteComment(id)
    IN  /\ commentsTable' = r.comments
        /\ last' = [op |-> "deleteComment", input |-> [id |-> id], out |-> r.out]
        /\ UNCHANGED <<usersTable, categoriesTable, newsTable, serial, now, proc, served>>

---------------------------------------------------------------------------
(* Inputs *)

Alice == [username |-> "alice", email |-> "alice@example.com", password |-> "password123"]
Technology == [name |-> "Technology", slug |-> "technology"]
Sports == [name |-> "Sports", slug |-> "sports"]

\* two slugs that differ only in case
NewsSlugs == {"a", "A"}
PublishedAt == 20240101

\* createNews inputs: every slug, a category id and an author id that can
\* exist (1) and one that never does (2), with and without a status and a
\* published_at
CreateNewsInputs ==
    { base @@ status @@ published :
        base \in [title : {"A"}, content : {"text"}, slug : NewsSlugs,
                  category_id : {1, 2}, author_id : {1, 2}],
        status \in {<<>>} \cup [status : newsStatusEnum],
        published \in {<<>>} \cup [published_at : {Some(PublishedAt)}] }

---------------------------------------------------------------------------
(* Spec: the news articles, created by calls that run alone *)

Next ==
    \/ CreateUser(Alice, "salt1")
    \/ CreateCategory(Technology)
    \/ \E raw \in CreateNewsInputs : CreateNews(raw)

Spec == Init /\ [][Next]_vars

---------------------------------------------------------------------------
(* SpecCategories: categories and the news rows that reference them *)

CategoryNewsInputs ==
    { base @@ status :
        base \in [title : {"A"}, content : {"text"}, slug : NewsSlugs,
                  category_id : 1..MaxCategories, author_id : {1}],
        status \in [status : newsStatusEnum] }

NextCategories ==
    \/ CreateUser(Alice, "salt1")
    \/ \E input \in {Technology, Sports} : CreateCategory(input)
    \/ \E id \in 1..MaxCategories : DeleteCategory(id)
    \/ \E raw \in CategoryNewsInputs : CreateNews(raw)
    \/ \E id \in 1..MaxNews : DeleteNews(id)

SpecCategories == Init /\ [][NextCategories]_vars

---------------------------------------------------------------------------
(* SpecCascade: deleting news rows and users that comments refer to *)

CascadeNewsInputs ==
    [title : {"A"}, content : {"text"}, slug : NewsSlugs,
     category_id : {1}, author_id : {1}]

CascadeCommentInputs ==
    [content : {"hi"}, news_id : 1..MaxNews, user_id : 1..MaxUsers]

NextCascade ==
    \/ CreateUser(Alice, "salt1")
    \/ \E id \in 1..MaxUsers : DeleteUser(id)
    \/ CreateCategory(Technology)
    \/ \E raw \in CascadeNewsInputs : CreateNews(raw)
    \/ \E input \in CascadeCommentInputs : CreateComment(input)
    \/ \E id \in 1..MaxNews : DeleteNews(id)

SpecCascade == Init /\ [][NextCascade]_vars

---------------------------------------------------------------------------
(* SpecAuth: registration, deactivation and login *)

Usernames == {"alice", "bob"}
\* two addresses that differ only in case
Emails == {"alice@example.com", "Alice@Example.com"}
Passwords == {"password123", "wrongpassword"}
\* randomBytes(16).toString('hex'): any value may come out
Salts == {"salt1", "salt2"}

AuthUserInputs == [username : Usernames, email : Emails, password : Passwords]

\* createUser returns the whole row, so a caller can know a stored hash
StoredHashes == {usersTable[u].password_hash : u \in DOMAIN usersTable}

LoginInputs == [email : Emails, password : Passwords \cup StoredHashes]

ActivationInputs == [id : 1..MaxUsers, is_active : BOOLEAN]

NextAuth ==
    \/ \E raw \in AuthUserInputs, salt \in Salts : CreateUser(raw, salt)
    \/ \E id \in 1..MaxUsers : DeleteUser(id)
    \/ \E input \in ActivationInputs : UpdateUser(input)
    \/ \E input \in LoginInputs : Login(input)

SpecAuth == Init /\ [][NextAuth]_vars

---------------------------------------------------------------------------
(* SpecUsers: registrations, each with the salt randomBytes draws for it, *)
(* and the reads of the users                                             *)

\* the salts of the stored hashes
UsedSalts ==
    {salt \in Salts :
        \E u \in DOMAIN usersTable, password \in Passwords :
            usersTable[u].password_hash = HashPassword(password, salt)}

\* randomBytes(16): 128 random bits, taken never to repeat a stored salt
\* pagination inputs: none, and windows shorter than the table
PageInputs == {<<>>, [limit |-> 1], [offset |-> 1], [limit |-> 1, offset |-> 1]}

NextUsers ==
    \/ \E raw \in AuthUserInputs, salt \in Salts \ UsedSalts : CreateUser(raw, salt)
    \/ \E id \in 1..MaxUsers : DeleteUser(id)
    \/ \E input \in LoginInputs : Login(input)
    \/ \E input \in PageInputs, order \in ScanOrders(DOMAIN usersTable) :
          GetUsers(input, order)
    \/ \E id \in 1..MaxUsers : GetUserById(id)

SpecUsers == Init /\ [][NextUsers]_vars

---------------------------------------------------------------------------
(* Statement-level calls: each step is one awaited statement of a handler, *)
(* and the steps of different processes interleave                         *)

Free(p) == proc[p].pc \in {"idle", "done"}
Done(p, out) == [proc[p] EXCEPT !.pc = "done"] @@ [out |-> out]
Goto(p, pc) == [proc EXCEPT ![p].pc = pc]

\* calls of op in flight
InFlight(op) == {q \in Procs : ~Free(q) /\ proc[q].op = op}

\* getNewsById: the update, then the select
StartGetNewsById(p, id) ==
    /\ Free(p)
    /\ id \in DOMAIN newsTable =>
          newsTable[id].views_count
            + Cardinality({q \in InFlight("getNewsById") :
                              proc[q].pc = "update" /\ proc[q].id = id}) < MaxViews
    /\ proc' = [proc EXCEPT ![p] = [op |-> "getNewsById", pc |-> "update", id |-> id]]
    /\ UNCHANGED <<tables, now, last, served>>

GetNewsByIdUpdate(p) ==
    /\ proc[p].pc = "update" /\ proc[p].op = "getNewsById"
    /\ newsTable' = IncrementViewsWhere(newsTable, NewsById(newsTable, proc[p].id))
    /\ proc' = Goto(p, "select")
    /\ UNCHANGED <<usersTable, categoriesTable, commentsTable, serial, now, last, served>>

GetNewsByIdSelect(p) ==
    LET found == FirstOrNull(newsTable, NewsById(newsTable, proc[p].id))
    IN  /\ proc[p].pc = "select" /\ proc[p].op = "getNewsById"
        /\ proc' = [proc EXCEPT ![p] = Done(p, Ok(found))]
        /\ served' = IF found = Null THEN served
                     ELSE [n \in DOMAIN served \cup {proc[p].id} |->
                            IF n = proc[p].id
                            THEN (IF n \in DOMAIN served THEN served[n] ELSE 0) + 1
                            ELSE served[n]]
        /\ UNCHANGED <<tables, now, last>>

\* createNews: the category check, the author check, the slug check, the insert
StartCreateNews(p, raw) ==
    /\ Free(p)
    /\ serial.news + Cardinality(InFlight("createNews")) <= MaxNews
    /\ proc' = [proc EXCEPT ![p] = [op |-> "createNews", pc |-> "category",
                                    input |-> ParseCreateNewsInput(raw)]]
    /\ UNCHANGED <<tables, now, last, served>>

\* one check of a handler: throw its error, or go on to the next statement
Check(p, error, next) ==
    /\ proc' = IF error # "" THEN [proc EXCEPT ![p] = Done(p, Err(error))] ELSE Goto(p, next)
    /\ UNCHANGED <<tables, now, last, served>>

CreateNewsCheck(p) ==
    /\ proc[p].op = "createNews"
    /\ \/ proc[p].pc = "category"
          /\ Check(p, CreateNewsCategoryError(proc[p].input), "author")
       \/ proc[p].pc = "author"
          /\ Check(p, CreateNewsAuthorError(proc[p].input), "slug")
       \/ proc[p].pc = "slug"
          /\ Check(p, CreateNewsSlugError(proc[p].input), "insert")

CreateNewsInsert(p) ==
    LET r == InsertNews(NewsValues(proc[p].input))
    IN  /\ proc[p].pc = "insert" /\ proc[p].op = "createNews"
        /\ newsTable' = r.news
        /\ serial' = [serial EXCEPT !.news = @ + 1]
        /\ proc' = [proc EXCEPT ![p] = Done(p, r.out)]
        /\ UNCHANGED <<usersTable, categoriesTable, commentsTable, now, last, served>>

\* updateNews: the existence check, the category and slug checks, the update
StartUpdateNews(p, input) ==
    /\ Free(p)
    /\ proc' = [proc EXCEPT ![p] = [op |-> "updateNews", pc |-> "exists", input |-> input]]
    /\ UNCHANGED <<tables, now, last, served>>

UpdateNewsCheck(p) ==
    /\ proc[p].op = "updateNews"
    /\ \/ proc[p].pc = "exists"
          /\ Check(p, UpdateNewsExistsError(proc[p].input), "category")
       \/ proc[p].pc = "category"
          /\ Check(p, UpdateNewsCategoryError(proc[p].input), "slug")
       \/ proc[p].pc = "slug"
          /\ Check(p, UpdateNewsSlugError(proc[p].input), "update")

UpdateNewsUpdate(p) ==
    LET result == UpdateNewsWhere(proc[p].input.id, NewsUpdateData(proc[p].input))
    IN  /\ proc[p].pc = "update" /\ proc[p].op = "updateNews"
        /\ newsTable' = result.news
        /\ proc' = [proc EXCEPT ![p] = Done(p, UpdateOutcome(result))]
        /\ UNCHANGED <<usersTable, categoriesTable, commentsTable, serial, now, last, served>>

\* updateCategory: the existence check, the slug check, the update
StartUpdateCategory(p, input) ==
    /\ Free(p)
    /\ proc' = [proc EXCEPT ![p] = [op |-> "updateCategory", pc |-> "exists",
                                    input |-> input]]
    /\ UNCHANGED <<tables, now, last, served>>

UpdateCategoryCheck(p) ==
    /\ proc[p].op = "updateCategory"
    /\ \/ proc[p].pc = "exists"
          /\ Check(p, UpdateCategoryExistsError(proc[p].input), "slug")
       \/ proc[p].pc = "slug"
          /\ Check(p, UpdateCategorySlugError(proc[p].input), "update")

UpdateCategoryUpdate(p) ==
    LET result == UpdateCategoryWhere(proc[p].input.id, CategoryUpdateData(proc[p].input))
    IN  /\ proc[p].pc = "update" /\ proc[p].op = "updateCategory"
        /\ categoriesTable' = result.categories
        /\ proc' = [proc EXCEPT ![p] = Done(p, UpdateOutcome(result))]
        /\ UNCHANGED <<usersTable, newsTable, commentsTable, serial, now, last, served>>

\* updateComment: the existence check, then the update and its result[0]
StartUpdateComment(p, input) ==
    /\ Free(p)
    /\ proc' = [proc EXCEPT ![p] = [op |-> "updateComment", pc |-> "exists",
                                    input |-> input]]
    /\ UNCHANGED <<tables, now, last, served>>

UpdateCommentCheck(p) ==
    /\ proc[p].op = "updateComment" /\ proc[p].pc = "exists"
    /\ Check(p, IF proc[p].input.id \in DOMAIN commentsTable THEN ""
                ELSE CommentNotFound(proc[p].input.id),
             "update")

UpdateCommentUpdate(p) ==
    LET id == proc[p].input.id
        updated == UpdateCommentWhere(id, CommentUpdateData(proc[p].input))
        rows == IF id \in DOMAIN updated THEN <<updated[id]>> ELSE <<>>
    IN  /\ proc[p].pc = "update" /\ proc[p].op = "updateComment"
        /\ commentsTable' = updated
        /\ proc' = [proc EXCEPT ![p] = Done(p, UpdateOutcome([error |-> "", rows |-> rows]))]
        /\ UNCHANGED <<usersTable, categoriesTable, newsTable, serial, now, last, served>>

\* moderateComment: the existence check, then the update and its result[0]
StartModerateComment(p, input) ==
    /\ Free(p)
    /\ proc' = [proc EXCEPT ![p] = [op |-> "moderateComment", pc |-> "exists",
                                    input |-> input]]
    /\ UNCHANGED <<tables, now, last, served>>

ModerateCommentCheck(p) ==
    /\ proc[p].op = "moderateComment" /\ proc[p].pc = "exists"
    /\ Check(p, IF proc[p].input.id \in DOMAIN commentsTable THEN ""
                ELSE CommentNotFound(proc[p].input.id),
             "update")

ModerateCommentUpdate(p) ==
    LET id == proc[p].input.id
        updated == UpdateCommentWhere(id, ModerationData(proc[p].input.status))
        rows == IF id \in DOMAIN updated THEN <<updated[id]>> ELSE <<>>
    IN  /\ proc[p].pc = "update" /\ proc[p].op = "moderateComment"
        /\ commentsTable' = updated
        /\ proc' = [proc EXCEPT ![p] = Done(p, UpdateOutcome([error |-> "", rows |-> rows]))]
        /\ UNCHANGED <<usersTable, categoriesTable, newsTable, serial, now, last, served>>

\* deleteNews: the existence check, the delete of the comments, the delete;
\* before records the comments that reference the row when the call starts
StartDeleteNews(p, id) ==
    /\ Free(p)
    /\ proc' = [proc EXCEPT ![p] = [op |-> "deleteNews", pc |-> "exists", id |-> id,
                                    before |-> {c \in DOMAIN commentsTable :
                                                  commentsTable[c].news_id = id}]]
    /\ UNCHANGED <<tables, now, last, served>>

DeleteNewsExists(p) ==
    /\ proc[p].pc = "exists" /\ proc[p].op = "deleteNews"
    /\ proc' = IF NewsById(newsTable, proc[p].id) = {}
               THEN [proc EXCEPT ![p] = Done(p, Ok(FALSE))]
               ELSE Goto(p, "comments")
    /\ UNCHANGED <<tables, now, last, served>>

DeleteNewsComments(p) ==
    /\ proc[p].pc = "comments" /\ proc[p].op = "deleteNews"
    /\ commentsTable' = DeleteCommentsOfNews(commentsTable, proc[p].id)
    /\ proc' = Goto(p, "news")
    /\ UNCHANGED <<usersTable, categoriesTable, newsTable, serial, now, last, served>>

DeleteNewsRow(p) ==
    LET result == DeleteNewsWhere(newsTable, commentsTable, proc[p].id)
    IN  /\ proc[p].pc = "news" /\ proc[p].op = "deleteNews"
        /\ newsTable' = result.news
        /\ proc' = [proc EXCEPT ![p] =
                      Done(p, IF result.error # "" THEN Err(result.error) ELSE Ok(TRUE))]
        /\ UNCHANGED <<usersTable, categoriesTable, commentsTable, serial, now, last, served>>

\* deleteCategory: the existence check, the guard on associated news, the delete
StartDeleteCategory(p, id) ==
    /\ Free(p)
    /\ proc' = [proc EXCEPT ![p] = [op |-> "deleteCategory", pc |-> "exists", id |-> id]]
    /\ UNCHANGED <<tables, now, last, served>>

DeleteCategoryCheck(p) ==
    /\ proc[p].op = "deleteCategory"
    /\ \/ proc[p].pc = "exists"
          /\ proc' = IF proc[p].id \notin DOMAIN categoriesTable
                     THEN [proc EXCEPT ![p] = Done(p, Ok(FALSE))]
                     ELSE Goto(p, "news")
       \/ proc[p].pc = "news"
          /\ proc' = IF AssociatedNews(proc[p].id) # {}
                     THEN [proc EXCEPT ![p] = Done(p, Ok(FALSE))]
                     ELSE Goto(p, "delete")
    /\ UNCHANGED <<tables, now, last, served>>

DeleteCategoryDelete(p) ==
    LET result == DeleteCategoryWhere(proc[p].id)
    IN  /\ proc[p].pc = "delete" /\ proc[p].op = "deleteCategory"
        /\ categoriesTable' = result.categories
        /\ proc' = [proc EXCEPT ![p] =
                      Done(p, IF result.error # "" THEN Err(result.error)
                              ELSE Ok(result.rowCount > 0))]
        /\ UNCHANGED <<usersTable, newsTable, commentsTable, serial, now, last, served>>

\* createComment: the user check, the news check, the insert under the
\* foreign keys of the comments table
StartCreateComment(p, input) ==
    /\ Free(p)
    /\ serial.comments + Cardinality(InFlight("createComment")) <= MaxComments
    /\ proc' = [proc EXCEPT ![p] = [op |-> "createComment", pc |-> "user", input |-> input]]
    /\ UNCHANGED <<tables, now, last, served>>

CreateCommentCheck(p) ==
    /\ proc[p].op = "createComment"
    /\ \/ proc[p].pc = "user"
          /\ Check(p, IF proc[p].input.user_id \in DOMAIN usersTable THEN ""
                      ELSE "User with id " \o ToString(proc[p].input.user_id) \o " not found",
                   "news")
       \/ proc[p].pc = "news"
          /\ Check(p, IF proc[p].input.news_id \in DOMAIN newsTable THEN ""
                      ELSE "News article with id " \o ToString(proc[p].input.news_id)
                               \o " not found",
                   "insert")

CreateCommentInsert(p) ==
    LET input == proc[p].input
        fk == CommentsForeignKeyViolation(input.news_id, input.user_id)
        row == [id |-> serial.comments,
                content |-> input.content,
                news_id |-> input.news_id,
                user_id |-> input.user_id,
                status |-> "pending",
                created_at |-> now,
                updated_at |-> now]
    IN  /\ proc[p].pc = "insert" /\ proc[p].op = "createComment"
        /\ commentsTable' = IF fk # "" THEN commentsTable
                            ELSE commentsTable @@ (row.id :> row)
        /\ serial' = [serial EXCEPT !.comments = @ + 1]
        /\ proc' = [proc EXCEPT ![p] =
                      Done(p, IF fk # "" THEN Err(ForeignKey("comments", fk)) ELSE Ok(row))]
        /\ UNCHANGED <<usersTable, categoriesTable, newsTable, now, last, served>>

---------------------------------------------------------------------------
(* The seeded database of the concurrent specifications *)

\* the database the calls run against: empty but for the rows that
\* createUser(Alice) and createCategory(Technology) insert
Seeded ==
    /\ usersTable = <<[id |-> 1, username |-> Alice.username, email |-> Alice.email,
                       password_hash |-> HashPassword(Alice.password, "salt1"),
                       full_name |-> Null, avatar |-> Null, role |-> "user",
                       is_active |-> TRUE, created_at |-> 0, updated_at |-> 0]>>
    /\ categoriesTable = <<[id |-> 1, name |-> Technology.name, slug |-> Technology.slug,
                            description |-> Null, created_at |-> 0, updated_at |-> 0]>>
    /\ newsTable = <<>>
    /\ commentsTable = <<>>
    /\ serial = [users |-> 2, categories |-> 2, news |-> 1, comments |-> 1]

InitSeeded ==
    /\ Seeded
    /\ now = 0
    /\ last = NoCall
    /\ proc = [p \in Procs |-> Idle]
    /\ served = <<>>

---------------------------------------------------------------------------
(* SpecReads: articles of every status, read by calls that run alone *)

ReadNewsInputs ==
    [title : {"A"}, content : {"text"}, slug : NewsSlugs,
     category_id : {1}, author_id : {1}, status : newsStatusEnum]

NextReads ==
    \/ \E raw \in ReadNewsInputs : CreateNews(raw)
    \/ \E id \in 1..MaxNews : GetNewsById(id)
    \/ \E slug \in NewsSlugs : GetNewsBySlug([slug |-> slug])

SpecReads == InitSeeded /\ [][NextReads]_vars

---------------------------------------------------------------------------
(* SpecUpdates: updateNews calls that run alone, as time passes *)

\* the values an update may carry for each field of UpdateNewsInput
UpdateNewsValues ==
    [title |-> {"B"}, slug |-> NewsSlugs, content |-> {"new"},
     excerpt |-> {Null, Some("x")}, featured_image |-> {Null, Some("img")},
     category_id |-> {1, 2}, status |-> {"published"},
     published_at |-> {Null, Some(PublishedAt)}]

\* the seeded database with two drafts in it, as two createNews calls
\* leave it
SeededNews ==
    /\ usersTable = <<[id |-> 1, username |-> Alice.username, email |-> Alice.email,
                       password_hash |-> HashPassword(Alice.password, "salt1"),
                       full_name |-> Null, avatar |-> Null, role |-> "user",
                       is_active |-> TRUE, created_at |-> 0, updated_at |-> 0]>>
    /\ categoriesTable = <<[id |-> 1, name |-> Technology.name, slug |-> Technology.slug,
                            description |-> Null, created_at |-> 0, updated_at |-> 0]>>
    /\ newsTable =
          [n \in {1, 2} |->
              [id |-> n, title |-> "A", slug |-> IF n = 1 THEN "a" ELSE "A",
               content |-> "text", excerpt |-> Null, featured_image |-> Null,
               category_id |-> 1, author_id |-> 1, status |-> "draft",
               views_count |-> 0, published_at |-> Null,
               created_at |-> 0, updated_at |-> 0]]
    /\ commentsTable = <<>>
    /\ serial = [users |-> 2, categories |-> 2, news |-> 3, comments |-> 1]

InitNews ==
    /\ SeededNews
    /\ now = 0
    /\ last = NoCall
    /\ proc = [p \in Procs |-> Idle]
    /\ served = <<>>

\* an id no article has
MissingNewsId == MaxNews + 1

\* updateNews inputs for the first article: the id alone, the id with one
\* field, the id with all; and inputs for an id no article has
UpdateNewsInputs ==
    {[id |-> 1]}
    \cup UNION {{(f :> v) @@ [id |-> 1] : v \in UpdateNewsValues[f]} :
                  f \in DOMAIN UpdateNewsValues}
    \cup [id : {1}, title : {"B"}, slug : NewsSlugs, content : {"new"},
          excerpt : {Null}, featured_image : {Some("img")}, category_id : {1, 2},
          status : {"published"}, published_at : {Some(PublishedAt)}]
    \cup {[id |-> MissingNewsId],
          [id |-> MissingNewsId, slug |-> "a"],
          [id |-> MissingNewsId, category_id |-> 2],
          [id |-> MissingNewsId, slug |-> "a", category_id |-> 2]}

NextUpdates ==
    \/ CreateCategory(Sports)
    \/ \E input \in UpdateNewsInputs : UpdateNews(input)
    \/ Tick

SpecUpdates == InitNews /\ [][NextUpdates]_vars

---------------------------------------------------------------------------
(* SpecCategoryUpdates: updateCategory calls that run alone, as time passes *)

\* the two categories of the handler's tests, inserted one after the other
SeededCategories ==
    /\ usersTable = <<>>
    /\ categoriesTable =
          <<[id |-> 1, name |-> Technology.name, slug |-> Technology.slug,
             description |-> Some("Tech news and updates"),
             created_at |-> 0, updated_at |-> 0],
            [id |-> 2, name |-> Sports.name, slug |-> Sports.slug,
             description |-> Some("Sports news and events"),
             created_at |-> 0, updated_at |-> 0]>>
    /\ newsTable = <<>>
    /\ commentsTable = <<>>
    /\ serial = [users |-> 1, categories |-> 3, news |-> 1, comments |-> 1]

InitCategories ==
    /\ SeededCategories
    /\ now = 0
    /\ last = NoCall
    /\ proc = [p \in Procs |-> Idle]
    /\ served = <<>>

\* an id no category has
MissingCategoryId == MaxCategories + 2

\* updateCategory inputs for the first category and for an id no category
\* has: each field omitted or supplied, the slug the category's own, the
\* other category's or a free one, the description null or not
UpdateCategoryInputs ==
    { id @@ name @@ slug @@ description :
        id \in [id : {1, MissingCategoryId}],
        name \in {<<>>} \cup [name : {"World"}],
        slug \in {<<>>} \cup [slug : {Technology.slug, Sports.slug, "world"}],
        description \in {<<>>} \cup [description : {Null, Some("about")}] }

NextCategoryUpdates ==
    \/ \E input \in UpdateCategoryInputs : UpdateCategory(input)
    \/ Tick

SpecCategoryUpdates == InitCategories /\ [][NextCategoryUpdates]_vars

---------------------------------------------------------------------------
(* SpecComments: comments written, edited, moderated and listed *)

MissingUserId == MaxUsers + 1
MissingCommentId == MaxComments + 1

\* createComment inputs: either article or none, the user or none
CommentInputs ==
    [content : {"hi"}, news_id : {1, 2, MissingNewsId}, user_id : {1, MissingUserId}]

\* updateComment inputs: the content, the status, both or neither
UpdateCommentInputs ==
    { id @@ content @@ status :
        id \in [id : {1, 2, MissingCommentId}],
        content \in {<<>>} \cup [content : {"edited"}],
        status \in {<<>>} \cup [status : commentStatusEnum] }

\* what a client may send to moderateComment
ModerateInputs == [id : {1, 2, MissingCommentId}, status : commentStatusEnum]

NextComments ==
    \/ \E input \in CommentInputs : CreateComment(input)
    \/ \E input \in UpdateCommentInputs : UpdateComment(input)
    \/ \E raw \in ModerateInputs : ModerateComment(raw)
    \/ \E newsId \in {1, 2, MissingNewsId}, input \in PageInputs,
          order \in ScanOrders(DOMAIN commentsTable) :
            GetCommentsByNewsId(newsId, input, order)

SpecComments == InitNews /\ [][NextComments]_vars

---------------------------------------------------------------------------
(* SpecListings: articles that change status and category, and are listed *)

\* an author, two categories and two drafts whose texts hold letters of
\* both cases and the characters + _ %
SeededArticles ==
    /\ usersTable = <<[id |-> 1, username |-> Alice.username, email |-> Alice.email,
                       password_hash |-> HashPassword(Alice.password, "salt1"),
                       full_name |-> Null, avatar |-> Null, role |-> "user",
                       is_active |-> TRUE, created_at |-> 0, updated_at |-> 0]>>
    /\ categoriesTable =
          <<[id |-> 1, name |-> Technology.name, slug |-> Technology.slug,
             description |-> Null, created_at |-> 0, updated_at |-> 0],
            [id |-> 2, name |-> Sports.name, slug |-> Sports.slug,
             description |-> Null, created_at |-> 0, updated_at |-> 0]>>
    /\ newsTable =
          <<[id |-> 1, title |-> <<"C", "+", "+">>, slug |-> "a",
             content |-> <<"a", "_", "b">>, excerpt |-> Null, featured_image |-> Null,
             category_id |-> 1, author_id |-> 1, status |-> "draft",
             views_count |-> 0, published_at |-> Null,
             created_at |-> 0, updated_at |-> 0],
            [id |-> 2, title |-> <<"J", "S">>, slug |-> "A",
             content |-> <<"x">>, excerpt |-> Null, featured_image |-> Null,
             category_id |-> 1, author_id |-> 1, status |-> "draft",
             views_count |-> 0, published_at |-> Null,
             created_at |-> 0, updated_at |-> 0]>>
    /\ commentsTable = <<>>
    /\ serial = [users |-> 2, categories |-> 3, news |-> 3, comments |-> 1]

InitArticles ==
    /\ SeededArticles
    /\ now = 0
    /\ last = NoCall
    /\ proc = [p \in Procs |-> Idle]
    /\ served = <<>>

\* updateNews inputs that publish, archive, withdraw, move or date an article
ListingUpdateInputs ==
    UNION {[id : {1, 2}, status : newsStatusEnum],
           [id : {1, 2}, category_id : {1, 2}],
           [id : {1, 2}, published_at : {Some(PublishedAt)}]}

CategoryListInputs ==
    { key @@ page : key \in [category_id : {1, 2}]
                            \cup [category_slug : {Sports.slug, "none"}],
                    page \in {<<>>, [limit |-> 1]} }

\* queries in either case, with the characters + _ % \ and without a match
Queries ==
    {<<"c", "+", "+">>, <<"j", "s">>, <<"A", "_", "B">>, <<"_">>, <<"%">>,
     <<"\\">>, <<"z">>}

SearchInputs ==
    { query @@ cat @@ page :
        query \in [query : Queries],
        cat \in {<<>>} \cup [category_id : {1}],
        page \in {<<>>, [limit |-> 1], [offset |-> 1]} }

NextListings ==
    \/ \E input \in ListingUpdateInputs : UpdateNews(input)
    \/ \E input \in PageInputs, order \in ScanOrders(DOMAIN newsTable) :
          GetNews(input, order) \/ GetAllNews(input, order)
    \/ \E raw \in CategoryListInputs, order \in ScanOrders(DOMAIN newsTable) :
          GetNewsByCategory(raw, order)
    \/ \E raw \in {<<>>, [limit |-> 1]}, order \in ScanOrders(DOMAIN newsTable) :
          GetFeaturedNews(raw, order)
    \/ \E raw \in SearchInputs, order \in ScanOrders(DOMAIN newsTable) :
          SearchNews(raw, order)

SpecListings == InitArticles /\ [][NextListings]_vars

---------------------------------------------------------------------------
(* SpecAccounts: users registered, renamed and deactivated *)

AccountInputs == [username : Usernames, email : Emails, password : {Alice.password}]

\* updateUser inputs: the username, the email, both or neither
AccountUpdateInputs ==
    { id @@ username @@ email :
        id \in [id : {1, 2}],
        username \in {<<>>} \cup [username : Usernames],
        email \in {<<>>} \cup [email : Emails] }

NextAccounts ==
    \/ \E raw \in AccountInputs : CreateUser(raw, "salt1")
    \/ \E input \in AccountUpdateInputs : UpdateUser(input)
    \/ \E id \in {1, 2} : DeleteUser(id)

SpecAccounts == Init /\ [][NextAccounts]_vars

---------------------------------------------------------------------------
(* SpecLifecycle: articles created, read, edited and deleted *)

\* updateNews inputs that retitle or publish an article
LifecycleUpdateInputs ==
    [id : {1, 2}, title : {"B"}] \cup [id : {1, 2}, status : {"published"}]

NextLifecycle ==
    \/ \E raw \in CascadeNewsInputs : CreateNews(raw)
    \/ \E id \in {1, 2} : GetNewsById(id)
    \/ \E slug \in NewsSlugs : GetNewsBySlug([slug |-> slug])
    \/ \E input \in LifecycleUpdateInputs : UpdateNews(input)
    \/ \E id \in {1, 2} : DeleteNews(id)

SpecLifecycle == InitSeeded /\ [][NextLifecycle]_vars

---------------------------------------------------------------------------
(* SpecCategoryFilter: articles listed by category, by id, by slug, by *)
(* both and by neither                                                 *)

CategoryFilterInputs ==
    { id @@ slug : id \in {<<>>} \cup [category_id : {0, 1, 2}],
                   slug \in {<<>>} \cup [category_slug : {"", Technology.slug, Sports.slug}] }

NextCategoryFilter ==
    \/ \E input \in ListingUpdateInputs : UpdateNews(input)
    \/ \E raw \in CategoryFilterInputs, order \in ScanOrders(DOMAIN newsTable) :
          GetNewsByCategory(raw, order)

SpecCategoryFilter == InitArticles /\ [][NextCategoryFilter]_vars

---------------------------------------------------------------------------
(* SpecPages: published articles of different dates and view counts, paged *)

\* updateNews inputs that publish or withdraw an article and date it
PageUpdateInputs ==
    [id : {1, 2}, status : {"published", "draft"}]
    \cup [id : {1, 2}, published_at : {Some(PublishedAt), Some(PublishedAt + 1)}]

\* what a client may send as pagination: nothing, windows inside and
\* outside of the list, and values outside of the schema
PagingInputs ==
    PageInputs \cup {[limit |-> 2], [limit |-> MaxLimit], [limit |-> MinLimit - 1],
                     [limit |-> MaxLimit + 1], [offset |-> 0 - 1], [offset |-> 2]}

FeaturedInputs == {<<>>} \cup [limit : {0 - 1, 0, 1, 2}]

NextPages ==
    \/ \E input \in PageUpdateInputs : UpdateNews(input)
    \/ \E id \in {1, 2} : GetNewsById(id)
    \/ \E input \in PagingInputs, order \in ScanOrders(DOMAIN newsTable) :
          GetNews(input, order)
    \/ \E raw \in FeaturedInputs, order \in ScanOrders(DOMAIN newsTable) :
          GetFeaturedNews(raw, order)

SpecPages == InitArticles /\ [][NextPages]_vars

---------------------------------------------------------------------------
(* SpecViews: concurrent getNewsById calls *)

NextViews ==
    \/ \E raw \in CascadeNewsInputs : CreateNews(raw)
    \/ \E p \in Readers, id \in DOMAIN newsTable : StartGetNewsById(p, id)
    \/ \E p \in Readers : GetNewsByIdUpdate(p)
    \/ \E p \in Readers : GetNewsByIdSelect(p)

SpecViews == InitSeeded /\ [][NextViews]_vars

---------------------------------------------------------------------------
(* SpecSlugs: concurrent createNews, updateNews and deleteNews calls *)

SlugUpdateInputs == [id : 1..MaxNews, slug : NewsSlugs]

NextSlugs ==
    \/ \E p \in Writers, raw \in CascadeNewsInputs : StartCreateNews(p, raw)
    \/ \E p \in Writers : CreateNewsCheck(p)
    \/ \E p \in Writers : CreateNewsInsert(p)
    \/ \E p \in Writers, input \in SlugUpdateInputs : StartUpdateNews(p, input)
    \/ \E p \in Writers : UpdateNewsCheck(p)
    \/ \E p \in Writers : UpdateNewsUpdate(p)
    \/ \E p \in Writers, id \in 1..MaxNews : StartDeleteNews(p, id)
    \/ \E p \in Writers : DeleteNewsExists(p)
    \/ \E p \in Writers : DeleteNewsComments(p)
    \/ \E p \in Writers : DeleteNewsRow(p)

SpecSlugs == InitSeeded /\ [][NextSlugs]_vars

---------------------------------------------------------------------------
(* SpecIntegrity: calls that insert and delete referenced rows, interleaved *)

IntegrityNewsInputs ==
    [title : {"A"}, content : {"text"}, slug : {"a"}, category_id : {1}, author_id : {1}]

IntegrityCommentInputs == [content : {"hi"}, news_id : {1, 2}, user_id : {1}]

NextIntegrity ==
    \/ \E p \in Writers, raw \in IntegrityNewsInputs : StartCreateNews(p, raw)
    \/ \E p \in Writers : CreateNewsCheck(p)
    \/ \E p \in Writers : CreateNewsInsert(p)
    \/ \E p \in Writers : StartDeleteCategory(p, 1)
    \/ \E p \in Writers : DeleteCategoryCheck(p)
    \/ \E p \in Writers : DeleteCategoryDelete(p)
    \/ \E p \in Writers, input \in IntegrityCommentInputs : StartCreateComment(p, input)
    \/ \E p \in Writers : CreateCommentCheck(p)
    \/ \E p \in Writers : CreateCommentInsert(p)
    \/ \E p \in Writers, id \in {1, 2} : StartDeleteNews(p, id)
    \/ \E p \in Writers : DeleteNewsExists(p)
    \/ \E p \in Writers : DeleteNewsComments(p)
    \/ \E p \in Writers : DeleteNewsRow(p)
    \/ DeleteUser(1)

SpecIntegrity == InitSeeded /\ [][NextIntegrity]_vars

---------------------------------------------------------------------------
(* SpecDeleteRace: deleteNews calls while comments are being created *)

NextDeleteRace ==
    \/ \E raw \in IntegrityNewsInputs : CreateNews(raw)
    \/ \E p \in Writers, input \in IntegrityCommentInputs : StartCreateComment(p, input)
    \/ \E p \in Writers : CreateCommentCheck(p)
    \/ \E p \in Writers : CreateCommentInsert(p)
    \/ \E p \in Writers, id \in {1, 2} : StartDeleteNews(p, id)
    \/ \E p \in Writers : DeleteNewsExists(p)
    \/ \E p \in Writers : DeleteNewsComments(p)
    \/ \E p \in Writers : DeleteNewsRow(p)

SpecDeleteRace == InitSeeded /\ [][NextDeleteRace]_vars

---------------------------------------------------------------------------
(* SpecStaleUpdates: rows deleted while calls that update them are in flight *)

StaleCommentInputs == [content : {"hi"}, news_id : {2}, user_id : {1}]

NextStaleUpdates ==
    \/ \E input \in StaleCommentInputs : CreateComment(input)
    \/ \E id \in {1, 2} : DeleteComment(id)
    \/ DeleteNews(1)
    \/ DeleteCategory(2)
    \/ \E p \in Writers : StartUpdateNews(p, [id |-> 1, title |-> "B"])
    \/ \E p \in Writers : UpdateNewsCheck(p)
    \/ \E p \in Writers : UpdateNewsUpdate(p)
    \/ \E p \in Writers : StartUpdateCategory(p, [id |-> 2, name |-> "World"])
    \/ \E p \in Writers : UpdateCategoryCheck(p)
    \/ \E p \in Writers : UpdateCategoryUpdate(p)
    \/ \E p \in Writers, id \in {1, 2} :
          StartUpdateComment(p, [id |-> id, content |-> "edited"])
    \/ \E p \in Writers : UpdateCommentCheck(p)
    \/ \E p \in Writers : UpdateCommentUpdate(p)
    \/ \E p \in Writers, id \in {1, 2} :
          StartModerateComment(p, [id |-> id, status |-> "approved"])
    \/ \E p \in Writers : ModerateCommentCheck(p)
    \/ \E p \in Writers : ModerateCommentUpdate(p)

SpecStaleUpdates == InitArticles /\ [][NextStaleUpdates]_vars

---------------------------------------------------------------------------
(* SpecReadEffects: every read of the router, between writes *)

ReadEffectUpdateInputs == [id : {1, 2}, status : {"published"}]

ReadEffectPages == {<<>>, [limit |-> 1]}

NextReadEffects ==
    \/ \E input \in ReadEffectUpdateInputs : UpdateNews(input)
    \/ \E input \in StaleCommentInputs : commentsTable = <<>> /\ CreateComment(input)
    \/ ModerateComment([id |-> 1, status |-> "approved"])
    \/ Tick
    \/ \E id \in {1, 3} : GetNewsById(id)
    \/ \E input \in [slug : {"a", "none"}] : GetNewsBySlug(input)
    \/ \E input \in ReadEffectPages, order \in ScanOrders(DOMAIN newsTable) :
          GetNews(input, order) \/ GetAllNews(input, order)
    \/ \E raw \in [category_id : {1}] \cup [category_slug : {Sports.slug}],
          order \in ScanOrders(DOMAIN newsTable) : GetNewsByCategory(raw, order)
    \/ \E order \in ScanOrders(DOMAIN newsTable) : GetFeaturedNews(<<>>, order)
    \/ \E raw \in [query : {<<"j", "s">>}], order \in ScanOrders(DOMAIN newsTable) :
          SearchNews(raw, order)
    \/ \E order \in ScanOrders(DOMAIN categoriesTable) : GetCategories(order)
    \/ \E id \in {1, 3} : GetCategoryById(id)
    \/ \E slug \in {Sports.slug, "none"} : GetCategoryBySlug(slug)
    \/ \E order \in ScanOrders(DOMAIN usersTable) : GetUsers(<<>>, order)
    \/ \E id \in {1, 2} : GetUserById(id)
    \/ \E order \in ScanOrders(DOMAIN commentsTable) :
          GetCommentsByNewsId(2, <<>>, order)
    \/ \E input \in ReadEffectPages, order \in ScanOrders(DOMAIN commentsTable) :
          GetAllComments(input, order) \/ GetPendingComments(input, order)
    \/ \E input \in [email : {Alice.email}, password : {Alice.password, "wrong"}] :
          Login(input)

SpecReadEffects == InitArticles /\ [][NextReadEffects]_vars

---------------------------------------------------------------------------
(* SpecCategorySlugs: categories created and deleted while updateCategory *)
(* calls interleave                                                       *)

CategorySlugUpdateInputs == [id : {1, 2}, slug : {Technology.slug, Sports.slug, "world"}]

NextCategorySlugs ==
    \/ \E input \in {Technology, Sports} : CreateCategory(input)
    \/ \E id \in {1, 2} : DeleteCategory(id)
    \/ \E p \in Writers, input \in CategorySlugUpdateInputs : StartUpdateCategory(p, input)
    \/ \E p \in Writers : UpdateCategoryCheck(p)
    \/ \E p \in Writers : UpdateCategoryUpdate(p)

SpecCategorySlugs == Init /\ [][NextCategorySlugs]_vars

---------------------------------------------------------------------------
(* Claims about concurrent calls *)

\* getNewsById calls on article n that have made their update and not yet returned
Selecting(n) ==
    {q \in Readers : proc[q].op = "getNewsById" /\ proc[q].pc = "select" /\ proc[q].id = n}

Completed(n) == IF n \in DOMAIN served THEN served[n] ELSE 0

\* C1: concurrent getNewsById calls on one article lose no increment: the
\* article's views_count is the number of calls on it that have made their
\* update, so once N calls have completed and none is in flight it has
\* increased from 0 by exactly N.
C1_NoLostIncrements ==
    \A n \in DOMAIN newsTable :
        newsTable[n].views_count = Completed(n) + Cardinality(Selecting(n))

\* every reader has completed a call on the same article, all of them
\* overlapping: each select ran after every update
C1_Witness ==
    \E n \in DOMAIN newsTable :
        /\ Completed(n) = NReaders
        /\ \A q \in Readers :
              /\ proc[q].pc = "done" /\ proc[q].id = n
              /\ proc[q].out = Ok(Some([newsTable[n] EXCEPT !.views_count = NReaders]))

\* C3: under every interleaving of the statements of createNews, updateNews
\* and deleteNews calls, no two rows of the news table have the same slug.
C3_SlugsDistinct ==
    \A m, n \in DOMAIN newsTable :
        newsTable[m].slug = newsTable[n].slug => m = n

\* two writers passed the slug check for the same free slug; the second
\* write was refused by the table, and the slug is held by one row
C3_Witness ==
    \E p \in Writers :
        /\ proc[p].pc = "done"
        /\ proc[p].op \in {"createNews", "updateNews"}
        /\ proc[p].out = Err(DuplicateKey("news_slug_unique"))
        /\ Cardinality(NewsBySlug(newsTable, proc[p].input.slug)) = 1

---------------------------------------------------------------------------
(* Claims about the news articles *)

SlugTaken(slug) == \E n \in DOMAIN newsTable : newsTable[n].slug = slug

\* the row a lookup by id / by slug matches, in the table before the call
Matched(call) ==
    IF call.op = "getNewsById" THEN NewsById(newsTable, call.input.id)
    ELSE NewsBySlug(newsTable, call.input.slug)

\* C2: a getNewsById or getNewsBySlug call that finds an article, whatever
\* its status, raises the stored views_count of that article by exactly one
\* and returns the row with the count of before the call plus one; a call
\* that matches no article returns null (and changes no row).
C2_ReadIncrementsOnce ==
    [][last'.op \in {"getNewsById", "getNewsBySlug"} =>
        IF Matched(last') = {}
        THEN last'.out = Ok(Null) /\ newsTable' = newsTable
        ELSE \A n \in Matched(last') :
                /\ newsTable'[n].views_count = newsTable[n].views_count + 1
                /\ last'.out = Ok(Some(newsTable'[n]))
                /\ last'.out.value[1].views_count = newsTable[n].views_count + 1
                /\ last'.out.value[1].status = newsTable[n].status]_vars

\* a second read of an archived article has returned it with views_count 2
C2_Witness ==
    /\ last.op \in {"getNewsById", "getNewsBySlug"}
    /\ last.out.value # Null
    /\ last.out.value[1].status = "archived"
    /\ last.out.value[1].views_count = 2

ConflictMessage(slug) == "News with slug '" \o slug \o "' already exists"

\* C4 as stated: createNews with the slug of an existing row fails with the
\* conflict error naming the slug and leaves the news rows as they were.
C4_Original ==
    [][(last'.op = "createNews" /\ SlugTaken(last'.input.slug)) =>
        /\ last'.out = Err(ConflictMessage(last'.input.slug))
        /\ newsTable' = newsTable]_vars

\* C4 amended: createNews with the slug of an existing row always fails and
\* leaves the news rows as they were; the error is the conflict error naming
\* the slug when category_id and author_id reference existing rows (the
\* category and the author are checked first).
C4_DuplicateSlugRejected ==
    [][(last'.op = "createNews" /\ SlugTaken(last'.input.slug)) =>
        /\ last'.out.kind = "error"
        /\ newsTable' = newsTable
        /\ (last'.input.category_id \in DOMAIN categoriesTable
            /\ last'.input.author_id \in DOMAIN usersTable)
              => last'.out = Err(ConflictMessage(last'.input.slug))]_vars

\* a createNews call has failed with the conflict error
C4_Witness ==
    /\ last.op = "createNews"
    /\ last.out = Err(ConflictMessage(last.input.slug))
    /\ SlugTaken(last.input.slug)

CategoryMessage(id) == "Category with id " \o ToString(id) \o " does not exist"
AuthorMessage(id) == "User with id " \o ToString(id) \o " does not exist"

\* what createNews does on success: one new row, with views_count 0, the
\* supplied status or draft, the supplied published_at or null
CreatedAsSupplied ==
    last'.out.kind = "ok" =>
        /\ last'.out.value.views_count = 0
        /\ last'.out.value.status =
              (IF "status" \in DOMAIN last'.input THEN last'.input.status ELSE "draft")
        /\ last'.out.value.published_at =
              (IF "published_at" \in DOMAIN last'.input
               THEN last'.input.published_at ELSE Null)
        /\ last'.out.value.id \notin DOMAIN newsTable
        /\ newsTable' = newsTable @@ (last'.out.value.id :> last'.out.value)

\* C5 as stated: a missing category gives the error naming the category id,
\* a missing author gives the error naming the user id, no row is inserted
\* in either case; a created row has views_count 0, the supplied status or
\* draft, the supplied published_at or null.
C5_Original ==
    [][last'.op = "createNews" =>
        /\ last'.input.category_id \notin DOMAIN categoriesTable =>
              last'.out = Err(CategoryMessage(last'.input.category_id))
              /\ newsTable' = newsTable
        /\ last'.input.author_id \notin DOMAIN usersTable =>
              last'.out = Err(AuthorMessage(last'.input.author_id))
              /\ newsTable' = newsTable
        /\ CreatedAsSupplied]_vars

\* C5 amended: as stated, except that the error naming the user id is the
\* one reported only when the category exists: the category is checked
\* first, and a call with both missing reports the category.
C5_CreateNewsChecksReferences ==
    [][last'.op = "createNews" =>
        /\ last'.input.category_id \notin DOMAIN categoriesTable =>
              last'.out = Err(CategoryMessage(last'.input.category_id))
              /\ newsTable' = newsTable
        /\ (last'.input.category_id \in DOMAIN categoriesTable
            /\ last'.input.author_id \notin DOMAIN usersTable) =>
              last'.out = Err(AuthorMessage(last'.input.author_id))
              /\ newsTable' = newsTable
        /\ last'.input.author_id \notin DOMAIN usersTable =>
              last'.out.kind = "error" /\ newsTable' = newsTable
        /\ CreatedAsSupplied]_vars

\* a createNews call without a status and without a published_at has
\* created a draft, after a call for a missing author has been refused
C5_Witness ==
    /\ last.op = "createNews"
    /\ last.out.kind = "ok"
    /\ "status" \notin DOMAIN last.input
    /\ last.out.value.status = "draft"
    /\ last.out.value.published_at = Null
    /\ last.out.value.id \in DOMAIN newsTable

---------------------------------------------------------------------------
(* Claims about the deletions *)

\* C6: deleteCategory(id) returns false and changes nothing when no category
\* has that id; returns false and leaves the category and every news row
\* unchanged when a news row of any status has category_id = id; and returns
\* true and removes exactly that category when no news row references it.
C6_DeleteCategoryGuarded ==
    [][last'.op = "deleteCategory" =>
        /\ newsTable' = newsTable
        /\ IF last'.input.id \notin DOMAIN categoriesTable
           THEN last'.out = Ok(FALSE) /\ categoriesTable' = categoriesTable
           ELSE IF \E n \in DOMAIN newsTable : newsTable[n].category_id = last'.input.id
           THEN last'.out = Ok(FALSE) /\ categoriesTable' = categoriesTable
           ELSE /\ last'.out = Ok(TRUE)
                /\ DOMAIN categoriesTable' = DOMAIN categoriesTable \ {last'.input.id}
                /\ \A c \in DOMAIN categoriesTable' :
                      categoriesTable'[c] = categoriesTable[c]]_vars

\* deleteCategory has returned false for a category whose only news are
\* drafts and archived articles, and the category is still there
C6_Witness ==
    /\ last.op = "deleteCategory"
    /\ last.out = Ok(FALSE)
    /\ last.input.id \in DOMAIN categoriesTable
    /\ \E n \in DOMAIN newsTable : newsTable[n].category_id = last.input.id
    /\ \A n \in DOMAIN newsTable :
          newsTable[n].category_id = last.input.id => newsTable[n].status # "published"

\* C7: deleteNews(id) returns false and changes nothing when no news row has
\* that id; otherwise it returns true, and afterwards neither the news row
\* nor any comment with news_id = id exists, while every other news row and
\* every comment of other news rows is unchanged.
C7_DeleteNewsCascades ==
    [][last'.op = "deleteNews" =>
        IF last'.input.id \notin DOMAIN newsTable
        THEN /\ last'.out = Ok(FALSE)
             /\ newsTable' = newsTable
             /\ commentsTable' = commentsTable
        ELSE /\ last'.out = Ok(TRUE)
             /\ DOMAIN newsTable' = DOMAIN newsTable \ {last'.input.id}
             /\ \A n \in DOMAIN newsTable' : newsTable'[n] = newsTable[n]
             /\ DOMAIN commentsTable' =
                  {c \in DOMAIN commentsTable : commentsTable[c].news_id # last'.input.id}
             /\ \A c \in DOMAIN commentsTable' : commentsTable'[c] = commentsTable[c]]_vars

\* deleteNews has returned true for an article that had a comment (the id of
\* the comment is spent), and the comment of another article is still there
C7_Witness ==
    /\ last.op = "deleteNews"
    /\ last.out = Ok(TRUE)
    /\ last.input.id \notin DOMAIN newsTable
    /\ Cardinality(DOMAIN commentsTable) = 1
    /\ serial.comments = 3
    /\ \A c \in DOMAIN commentsTable : commentsTable[c].news_id \in DOMAIN newsTable

\* C8: deleteUser(id) removes no row: for an existing user, active or not,
\* it sets is_active to false and returns true; for an id with no user it
\* returns false and changes nothing; in both cases every news row and
\* every comment row, author_id and user_id included, is unchanged.
C8_DeleteUserIsSoft ==
    [][last'.op = "deleteUser" =>
        /\ newsTable' = newsTable
        /\ commentsTable' = commentsTable
        /\ DOMAIN usersTable' = DOMAIN usersTable
        /\ IF last'.input.id \in DOMAIN usersTable
           THEN /\ last'.out = Ok(TRUE)
                /\ usersTable'[last'.input.id].is_active = FALSE
                /\ \A u \in DOMAIN usersTable \ {last'.input.id} :
                      usersTable'[u] = usersTable[u]
           ELSE /\ last'.out = Ok(FALSE)
                /\ usersTable' = usersTable]_vars

\* deleteUser has returned true for the author of an article and of a
\* comment; the user row, the article and the comment are all there
C8_Witness ==
    /\ last.op = "deleteUser"
    /\ last.out = Ok(TRUE)
    /\ last.input.id \in DOMAIN usersTable
    /\ ~usersTable[last.input.id].is_active
    /\ \E n \in DOMAIN newsTable : newsTable[n].author_id = last.input.id
    /\ \E c \in DOMAIN commentsTable : commentsTable[c].user_id = last.input.id

---------------------------------------------------------------------------
(* Claims about login *)

\* the rows login selects: the users with exactly that email
UsersByEmail(email) == {u \in DOMAIN usersTable : usersTable[u].email = email}

\* the check the specification describes: the digest of the password with
\* the salt kept in the stored value is the stored digest
Verifies(stored, password) == \E salt \in Salts : stored = HashPassword(password, salt)

\* C9: login returns null, and no error, when no user has exactly that
\* email, when the user is inactive (as after deleteUser, until is_active is
\* set back to true), or when the password's salted digest is not the stored
\* one.
C9_LoginNullCases ==
    last.op = "login" =>
        /\ last.out.kind = "ok"
        /\ (\/ UsersByEmail(last.input.email) = {}
            \/ \E u \in UsersByEmail(last.input.email) :
                  \/ ~usersTable[u].is_active
                  \/ ~Verifies(usersTable[u].password_hash, last.input.password))
              => last.out = Ok(Null)

\* C9, the cases the code does keep: null for an email no user has and for
\* an inactive user, whatever the password
C9_NullWhenAbsentOrInactive ==
    last.op = "login" =>
        /\ last.out.kind = "ok"
        /\ (\/ UsersByEmail(last.input.email) = {}
            \/ \E u \in UsersByEmail(last.input.email) : ~usersTable[u].is_active)
              => last.out = Ok(Null)

\* C10: for a user created by createUser with password p and still active,
\* login(email, p) returns that user's projection, and login(email, q)
\* returns null for every q whose salted digest differs from the stored one.
C10_LoginVerifiesDigest ==
    last.op = "login" =>
        \A u \in UsersByEmail(last.input.email) :
            usersTable[u].is_active =>
                IF Verifies(usersTable[u].password_hash, last.input.password)
                THEN last.out = Ok(Some(WithoutPassword(usersTable[u])))
                ELSE last.out = Ok(Null)

---------------------------------------------------------------------------
(* Claims about the stored passwords *)

\* C11: the password_hash createUser stores is never the plaintext password;
\* it is digest:salt with digest the hash of the password followed by the
\* salt, so it verifies against that password and against no other; and no
\* two users, the same password or not, have the same password_hash.
C11_PasswordStoredSalted ==
    /\ \A u, v \in DOMAIN usersTable :
          usersTable[u].password_hash = usersTable[v].password_hash => u = v
    /\ (last.op = "createUser" /\ last.out.kind = "ok") =>
          /\ last.out.value.password_hash # last.input.password
          /\ \E salt \in Salts :
                last.out.value.password_hash
                    = Sha256Hex(last.input.password \o salt) \o ":" \o salt
          /\ \A q \in Passwords :
                Verifies(last.out.value.password_hash, q) <=> q = last.input.password
          /\ usersTable[last.out.value.id].password_hash = last.out.value.password_hash

\* two users registered with the same password are stored with two hashes
C11_Witness ==
    /\ last.op = "createUser" /\ last.out.kind = "ok"
    /\ \E u, v \in DOMAIN usersTable :
          /\ u # v
          /\ Verifies(usersTable[u].password_hash, last.input.password)
          /\ Verifies(usersTable[v].password_hash, last.input.password)
          /\ usersTable[u].password_hash # usersTable[v].password_hash

\* the stores that differ from the current one only in the password_hash
\* values of the users
OtherHashes == {"x", "y"}
Rehashed ==
    {[u \in DOMAIN usersTable |-> [usersTable[u] EXCEPT !.password_hash = hashes[u]]] :
        hashes \in [DOMAIN usersTable -> OtherHashes]}

\* the users in a result of getUsers, getUserById or login
ReturnedUsers ==
    IF last.op = "getUsers"
    THEN {last.out.value[i] : i \in 1..Len(last.out.value)}
    ELSE IF last.out.value = Null THEN {} ELSE {last.out.value[1]}

\* C12: no user in a result of getUsers, getUserById or login has a
\* password_hash field, and on two stores that differ only in the
\* password_hash values of their users getUsers and getUserById return the
\* same results.
C12_NoPasswordHashInReads ==
    /\ last.op \in {"getUsers", "getUserById", "login"} =>
          \A user \in ReturnedUsers : "password_hash" \notin DOMAIN user
    /\ \A users \in Rehashed :
          /\ \A input \in PageInputs, order \in ScanOrders(DOMAIN usersTable) :
                getUsers(users, input, order) = getUsers(usersTable, input, order)
          /\ \A id \in 1..MaxUsers :
                getUserById(users, id) = getUserById(usersTable, id)

\* getUsers has returned two users without their hashes
C12_Witness ==
    /\ last.op = "getUsers"
    /\ Len(last.out.value) = 2
    /\ \A u \in DOMAIN usersTable : usersTable[u].password_hash \notin OtherHashes

---------------------------------------------------------------------------
(* Claims about updateNews *)

\* a step that is a call of op: the clock moves only between calls
Called(op) == last'.op = op /\ now' = now

\* C13: a successful updateNews(input) sets, in the row with id = input.id,
\* each field present in the input to the supplied value (null included)
\* and updated_at to the time of the call; every other field of the row
\* (author_id, views_count, created_at and the omitted fields) and every
\* other news row keep their values.
C13_UpdateNewsFrame ==
    [][(Called("updateNews") /\ last'.out.kind = "ok") =>
        /\ DOMAIN newsTable' = DOMAIN newsTable
        /\ last'.input.id \in DOMAIN newsTable
        /\ last'.out.value = newsTable'[last'.input.id]
        /\ \A f \in DOMAIN last'.input \ {"id"} :
              newsTable'[last'.input.id][f] = last'.input[f]
        /\ newsTable'[last'.input.id].updated_at = now
        /\ \A f \in DOMAIN newsTable[last'.input.id]
                      \ ((DOMAIN last'.input \ {"id"}) \cup {"updated_at"}) :
              newsTable'[last'.input.id][f] = newsTable[last'.input.id][f]
        /\ \A n \in DOMAIN newsTable \ {last'.input.id} :
              newsTable'[n] = newsTable[n]]_vars

\* an update that carried only excerpt = null has succeeded, later than the
\* creation, on a row that keeps the title and the image of earlier updates
C13_Witness ==
    /\ last.op = "updateNews" /\ last.out.kind = "ok"
    /\ DOMAIN last.input = {"id", "excerpt"}
    /\ last.input.excerpt = Null
    /\ newsTable[1].excerpt = Null
    /\ newsTable[1].title = "B"
    /\ newsTable[1].featured_image = Some("img")
    /\ newsTable[1].updated_at > newsTable[1].created_at
    /\ newsTable[2].updated_at = newsTable[2].created_at

NewsNotFound(id) == "News article with id " \o ToString(id) \o " not found"
CategoryNotFound(id) == "Category with id " \o ToString(id) \o " not found"
SlugConflict(slug) == "News article with slug '" \o slug \o "' already exists"

\* the cases of C14, for the call of the step
NoSuchNews == last'.input.id \notin DOMAIN newsTable
NoSuchCategory ==
    "category_id" \in DOMAIN last'.input
    /\ last'.input.category_id \notin DOMAIN categoriesTable
SlugOfAnother ==
    /\ "slug" \in DOMAIN last'.input
    /\ last'.input.id \in DOMAIN newsTable
    /\ \E n \in DOMAIN newsTable \ {last'.input.id} : newsTable[n].slug = last'.input.slug
OwnSlug ==
    /\ "slug" \in DOMAIN last'.input
    /\ last'.input.id \in DOMAIN newsTable
    /\ newsTable[last'.input.id].slug = last'.input.slug

\* C14 as stated: not-found error for an id of no row, not-found error for
\* a supplied category_id of no category, conflict error for the slug of a
\* different row, no row changed in each case; the row's own slug is no
\* conflict.
C14_Original ==
    [][last'.op = "updateNews" =>
        /\ NoSuchNews => last'.out = Err(NewsNotFound(last'.input.id))
        /\ NoSuchCategory =>
              last'.out \in {Err(NewsNotFound(last'.input.id)),
                             Err(CategoryNotFound(last'.input.category_id))}
        /\ SlugOfAnother => last'.out = Err(SlugConflict(last'.input.slug))
        /\ (NoSuchNews \/ NoSuchCategory \/ SlugOfAnother) => newsTable' = newsTable
        /\ (OwnSlug /\ ~NoSuchCategory) => last'.out.kind = "ok"]_vars

\* C14 amended: as stated, except that the conflict error is the one
\* reported only when the supplied category_id, if any, references a
\* category: the category is checked before the slug, and a call with both
\* wrong fails with the not-found error of the category.
C14_UpdateNewsErrors ==
    [][last'.op = "updateNews" =>
        /\ NoSuchNews => last'.out = Err(NewsNotFound(last'.input.id))
        /\ NoSuchCategory =>
              last'.out \in {Err(NewsNotFound(last'.input.id)),
                             Err(CategoryNotFound(last'.input.category_id))}
        /\ (SlugOfAnother /\ ~NoSuchCategory) =>
              last'.out = Err(SlugConflict(last'.input.slug))
        /\ (NoSuchNews \/ NoSuchCategory \/ SlugOfAnother) =>
              last'.out.kind = "error" /\ newsTable' = newsTable
        /\ (OwnSlug /\ ~NoSuchCategory) => last'.out.kind = "ok"]_vars

\* an update to the slug of the other article, with a category that exists,
\* has failed with the conflict error
C14_Witness ==
    /\ last.op = "updateNews"
    /\ {"slug", "category_id"} \subseteq DOMAIN last.input
    /\ last.out = Err(SlugConflict(last.input.slug))
    /\ last.input.category_id \in DOMAIN categoriesTable
    /\ newsTable[2].slug = last.input.slug

---------------------------------------------------------------------------
(* Claims about updateCategory *)

\* C15: updateCategory fails with a not-found error when no category has
\* the id, and with a conflict error when the supplied slug is that of
\* another category, and changes no category in both cases; with the
\* category's own slug, or a free one, it succeeds; a successful call sets
\* the supplied fields among name, slug and description (null clears the
\* description) and updated_at, and nothing else.
C15_UpdateCategory ==
    [][Called("updateCategory") =>
        IF last'.input.id \notin DOMAIN categoriesTable
        THEN /\ last'.out = Err("Category with id " \o ToString(last'.input.id) \o " not found")
             /\ categoriesTable' = categoriesTable
        ELSE IF "slug" \in DOMAIN last'.input
                /\ \E c \in DOMAIN categoriesTable \ {last'.input.id} :
                      categoriesTable[c].slug = last'.input.slug
        THEN /\ last'.out = Err("Category with slug '" \o last'.input.slug \o "' already exists")
             /\ categoriesTable' = categoriesTable
        ELSE /\ last'.out = Ok(categoriesTable'[last'.input.id])
             /\ DOMAIN categoriesTable' = DOMAIN categoriesTable
             /\ \A f \in DOMAIN last'.input \ {"id"} :
                   categoriesTable'[last'.input.id][f] = last'.input[f]
             /\ categoriesTable'[last'.input.id].updated_at = now
             /\ \A f \in {"id", "name", "slug", "description", "created_at"}
                           \ (DOMAIN last'.input \ {"id"}) :
                   categoriesTable'[last'.input.id][f] = categoriesTable[last'.input.id][f]
             /\ \A c \in DOMAIN categoriesTable \ {last'.input.id} :
                   categoriesTable'[c] = categoriesTable[c]]_vars

\* an update that carried the category's own slug and a null description
\* has succeeded, later than the creation, beside another category
C15_Witness ==
    /\ last.op = "updateCategory" /\ last.out.kind = "ok"
    /\ DOMAIN last.input = {"id", "slug", "description"}
    /\ last.input.slug = Technology.slug
    /\ last.input.description = Null
    /\ last.out.value.name = "World"
    /\ last.out.value.updated_at > last.out.value.created_at
    /\ \E c \in DOMAIN categoriesTable : categoriesTable[c].slug = Sports.slug

---------------------------------------------------------------------------
(* Claims about comments *)

UserNotFound(id) == "User with id " \o ToString(id) \o " not found"
NoSuchUser == last'.input.user_id \notin DOMAIN usersTable
NoSuchArticle == last'.input.news_id \notin DOMAIN newsTable

ReturnsOnlyApproved ==
    last.op = "getCommentsByNewsId" =>
        /\ last.out.kind = "ok"
        /\ \A i \in DOMAIN last.out.value :
              /\ last.out.value[i].id \in DOMAIN commentsTable
              /\ \A f \in DOMAIN commentsTable[last.out.value[i].id] :
                    last.out.value[i][f] = commentsTable[last.out.value[i].id][f]
              /\ last.out.value[i].news_id = last.input.newsId
              /\ last.out.value[i].status = "approved"
        /\ (\A c \in DOMAIN commentsTable :
                ~(commentsTable[c].news_id = last.input.newsId
                  /\ commentsTable[c].status = "approved"))
              => last.out.value = <<>>

\* C17: getCommentsByNewsId(n) returns only comments with news_id = n and
\* status approved, and the empty list without error when there is none
\* (also when n is the id of no news row); a comment becomes approved only
\* by a moderateComment or updateComment call that sets it so, hence a new
\* comment is not returned before that, nor once it is rejected or pending.
C17_OnlyApprovedComments ==
    [][/\ ReturnsOnlyApproved'
       /\ \A c \in DOMAIN commentsTable' :
             (/\ commentsTable'[c].status = "approved"
              /\ (c \in DOMAIN commentsTable => commentsTable[c].status # "approved"))
             => /\ last'.op \in {"moderateComment", "updateComment"}
                /\ last'.input.id = c
                /\ last'.input.status = "approved"]_vars

\* a listing of the first article returned one comment and left out a
\* comment of that article that has been rejected
C17_Witness ==
    /\ last.op = "getCommentsByNewsId"
    /\ last.input.newsId = 1
    /\ Len(last.out.value) = 1
    /\ \E c \in DOMAIN commentsTable :
          /\ commentsTable[c].news_id = 1
          /\ commentsTable[c].status = "rejected"
          /\ last.out.value[1].id # c

\* C18: the moderateComment procedure refuses a status other than approved
\* and rejected; on an id of no comment it fails with the not-found error;
\* both leave the comments as they are. On an existing comment, whatever its
\* status, it succeeds, sets the status to the one given and leaves the
\* content, news_id and user_id as they were, and the other comments too;
\* so it never sets a comment to pending.
C18_ModerateComment ==
    [][last'.op = "moderateComment" =>
        IF last'.input.status \notin {"approved", "rejected"}
        THEN last'.out.kind = "error" /\ commentsTable' = commentsTable
        ELSE IF last'.input.id \notin DOMAIN commentsTable
        THEN /\ last'.out = Err(CommentNotFound(last'.input.id))
             /\ commentsTable' = commentsTable
        ELSE /\ last'.out = Ok(commentsTable'[last'.input.id])
             /\ DOMAIN commentsTable' = DOMAIN commentsTable
             /\ commentsTable'[last'.input.id].status = last'.input.status
             /\ commentsTable'[last'.input.id].status # "pending"
             /\ \A f \in {"id", "content", "news_id", "user_id", "created_at"} :
                   commentsTable'[last'.input.id][f] = commentsTable[last'.input.id][f]
             /\ \A c \in DOMAIN commentsTable \ {last'.input.id} :
                   commentsTable'[c] = commentsTable[c]]_vars

\* an edited comment has been moderated to approved and keeps its content,
\* beside a comment that was rejected
C18_Witness ==
    /\ last.op = "moderateComment"
    /\ last.out.kind = "ok"
    /\ last.out.value.status = "approved"
    /\ last.out.value.content = "edited"
    /\ \E c \in DOMAIN commentsTable \ {last.input.id} :
          commentsTable[c].status = "rejected"

---------------------------------------------------------------------------
(* Claims about the listings of news *)

ReturnedNews == {last.out.value[i] : i \in DOMAIN last.out.value}

\* C19: every row that getNews, getNewsByCategory, getFeaturedNews and
\* searchNews return is a row of the table with status published, so no
\* draft and no archived article is listed; getAllNews returns the rows of
\* its window whatever their status.
C19_ListingsOnlyPublished ==
    /\ last.op \in {"getNews", "getNewsByCategory", "getFeaturedNews", "searchNews"} =>
          /\ last.out.kind = "ok"
          /\ \A r \in ReturnedNews :
                r.id \in DOMAIN newsTable /\ r = newsTable[r.id] /\ r.status = "published"
    /\ last.op = "getAllNews" =>
          /\ last.out.kind = "ok"
          /\ \A r \in ReturnedNews : r.id \in DOMAIN newsTable /\ r = newsTable[r.id]
          /\ DOMAIN last.input = {} => Cardinality(ReturnedNews) = Cardinality(DOMAIN newsTable)

\* a category listing returned the one published article of a category
\* that also holds an archived article
C19_Witness ==
    /\ last.op = "getNewsByCategory"
    /\ "category_id" \in DOMAIN last.input
    /\ Len(last.out.value) = 1
    /\ \E n \in DOMAIN newsTable :
          /\ newsTable[n].status = "archived"
          /\ newsTable[n].category_id = last.input.category_id

\* text holds query as a substring when case is disregarded, each
\* character of the query standing for itself
Contains(text, query) ==
    \E i \in 0..(Len(text) - Len(query)) :
        \A k \in 1..Len(query) : Lower(text[i + k]) = Lower(query[k])

\* the published articles a search for the input's query is to find
Matching(input) ==
    {n \in DOMAIN newsTable :
        /\ newsTable[n].status = "published"
        /\ Contains(newsTable[n].title, input.query)
              \/ Contains(newsTable[n].content, input.query)
        /\ "category_id" \in DOMAIN input => newsTable[n].category_id = input.category_id}

Least(a, b) == IF a <= b THEN a ELSE b

\* C20: searchNews returns, within its window, exactly the published rows
\* whose title or content contains the query as a case-insensitive
\* substring, of the category when one is given, every character of the
\* query matched literally: the rows returned are among these, no row
\* twice, and as many of them as the window admits.
C20_SearchMatchesLiterally ==
    last.op = "searchNews" =>
        /\ last.out.kind = "ok"
        /\ \A r \in ReturnedNews : r.id \in Matching(last.input) /\ r = newsTable[r.id]
        /\ Cardinality(ReturnedNews) = Len(last.out.value)
        /\ Len(last.out.value) =
              LET found == Cardinality(Matching(last.input))
                  skipped == Least(OffsetOf(last.input), found)
              IN  Least(LimitOf(last.input), found - skipped)

---------------------------------------------------------------------------
(* Claims about the uniqueness of users and categories *)

UniqueUsers ==
    \A u, v \in DOMAIN usersTable :
        u # v => /\ usersTable[u].username # usersTable[v].username
                 /\ usersTable[u].email # usersTable[v].email

\* the users other than id that hold the input's username or email
Colliding(input, id) ==
    {u \in DOMAIN usersTable \ {id} :
        \/ "username" \in DOMAIN input /\ usersTable[u].username = input.username
        \/ "email" \in DOMAIN input /\ usersTable[u].email = input.email}

\* C21: after every createUser, updateUser and deleteUser call no two user
\* rows, active or not, share a username or an email; createUser with a
\* username or email in use fails and inserts no row; updateUser of an
\* existing user to the username or email of another user fails with a
\* conflict and changes nothing.
C21_UsersStayUnique ==
    [][/\ UniqueUsers'
       /\ (last'.op = "createUser" /\ Colliding(last'.input, 0) # {}) =>
             last'.out.kind = "error" /\ usersTable' = usersTable
       /\ (/\ last'.op = "updateUser"
           /\ last'.input.id \in DOMAIN usersTable
           /\ Colliding(last'.input, last'.input.id) # {}) =>
             /\ last'.out.kind = "error"
             /\ last'.out.message # UserNotFound(last'.input.id)
             /\ usersTable' = usersTable]_vars

\* an update to the email of another user, one that is deactivated, has
\* failed
C21_Witness ==
    /\ last.op = "updateUser"
    /\ last.out.kind = "error"
    /\ DOMAIN last.input = {"id", "email"}
    /\ \E u \in DOMAIN usersTable \ {last.input.id} :
          /\ usersTable[u].email = last.input.email
          /\ ~usersTable[u].is_active

---------------------------------------------------------------------------
(* Claims about the view counter *)

\* C22: a news row has views_count 0 when createNews inserts it; while the
\* row exists its views_count never decreases and changes only by +1, in a
\* getNewsById or getNewsBySlug call; updateNews never changes it.
C22_ViewsLifecycle ==
    [][\A n \in DOMAIN newsTable' :
          IF n \notin DOMAIN newsTable
          THEN last'.op = "createNews" /\ newsTable'[n].views_count = 0
          ELSE \/ newsTable'[n].views_count = newsTable[n].views_count
               \/ /\ newsTable'[n].views_count = newsTable[n].views_count + 1
                  /\ last'.op \in {"getNewsById", "getNewsBySlug"}]_vars

\* an article read more than once has been updated and keeps its count
C22_Witness ==
    /\ last.op = "updateNews"
    /\ last.out.kind = "ok"
    /\ last.out.value.views_count > 1
    /\ newsTable[last.input.id].views_count = last.out.value.views_count

---------------------------------------------------------------------------
(* Claims about pagination and the featured listing *)

\* the lists of the published articles, newest published_at first
PublishedNewestFirst ==
    {order \in ScanOrders({n \in DOMAIN newsTable : newsTable[n].status = "published"}) :
        \A i, j \in DOMAIN order :
            (/\ i < j
             /\ newsTable[order[i]].published_at # Null
             /\ newsTable[order[j]].published_at # Null)
            => newsTable[order[i]].published_at[1] >= newsTable[order[j]].published_at[1]}

\* the elements of list at the positions offset .. offset + limit - 1,
\* counted from 0
Page(list, limit, offset) ==
    [k \in 1..Least(limit, IF Len(list) > offset THEN Len(list) - offset ELSE 0) |->
        list[offset + k]]

\* C23: getNews accepts a limit only in 1..100 and an offset only when it
\* is >= 0; it returns the elements at the positions offset ..
\* offset+limit-1 of the published news sorted by published_at descending,
\* with limit 20 and offset 0 when they are not given, and never more than
\* limit elements.
C23_GetNewsPage ==
    last.op = "getNews" =>
        IF \/ "limit" \in DOMAIN last.input /\ last.input.limit \notin 1..100
           \/ "offset" \in DOMAIN last.input /\ last.input.offset < 0
        THEN last.out.kind = "error"
        ELSE LET limit == IF "limit" \in DOMAIN last.input THEN last.input.limit ELSE 20
                 offset == IF "offset" \in DOMAIN last.input THEN last.input.offset ELSE 0
             IN  /\ last.out.kind = "ok"
                 /\ Len(last.out.value) <= limit
                 /\ \E order \in PublishedNewestFirst :
                       last.out.value =
                          Page([i \in DOMAIN order |-> newsTable[order[i]]], limit, offset)

\* the second page of one article holds the older of two published
\* articles of different dates
C23_Witness ==
    /\ last.op = "getNews"
    /\ last.input = [limit |-> 1, offset |-> 1]
    /\ Len(last.out.value) = 1
    /\ last.out.value[1].published_at = Some(PublishedAt)
    /\ \E n \in DOMAIN newsTable :
          /\ newsTable[n].status = "published"
          /\ newsTable[n].published_at = Some(PublishedAt + 1)

\* C24: when getFeaturedNews(limit) returns, it returns at most limit rows
\* (5 when no limit is given), all of them published rows, no row twice,
\* sorted by views_count descending, and as many as there are within the
\* limit; no published row that is left out has a greater views_count than
\* a returned one.
C24_FeaturedMostViewed ==
    (last.op = "getFeaturedNews" /\ last.out.kind = "ok") =>
        LET limit == IF "limit" \in DOMAIN last.input THEN last.input.limit ELSE 5
            published == {n \in DOMAIN newsTable : newsTable[n].status = "published"}
            returned == {last.out.value[i].id : i \in DOMAIN last.out.value}
        IN  /\ Len(last.out.value) = Least(limit, Cardinality(published))
            /\ Cardinality(returned) = Len(last.out.value)
            /\ returned \subseteq published
            /\ \A i \in DOMAIN last.out.value :
                  last.out.value[i] = newsTable[last.out.value[i].id]
            /\ \A i, j \in DOMAIN last.out.value :
                  i < j => last.out.value[i].views_count >= last.out.value[j].views_count
            /\ \A n \in published \ returned, r \in returned :
                  newsTable[n].views_count <= newsTable[r].views_count

\* a featured listing of one row returned the second article, which has
\* more views than the first, also published
C24_Witness ==
    /\ last.op = "getFeaturedNews"
    /\ last.input = [limit |-> 1]
    /\ Len(last.out.value) = 1
    /\ last.out.value[1].id = 2
    /\ newsTable[1].status = "published"
    /\ newsTable[1].views_count < newsTable[2].views_count

UniqueSlugs ==
    \A c, d \in DOMAIN categoriesTable :
        c # d => categoriesTable[c].slug # categoriesTable[d].slug

\* a step that is a whole call of op, made while other calls are in flight
CalledAlone(op) == last'.op = op /\ proc' = proc /\ now' = now

\* C25: whatever the interleaving of createCategory, updateCategory and
\* deleteCategory calls, no two categories have the same slug;
\* createCategory with a slug in use fails with a conflict and inserts no
\* row; a category created without a description has description null.
C25_CategorySlugsUnique ==
    [][/\ UniqueSlugs'
       /\ CalledAlone("createCategory") =>
             IF \E c \in DOMAIN categoriesTable :
                   categoriesTable[c].slug = last'.input.slug
             THEN /\ last'.out = Err(DuplicateKey("categories_slug_unique"))
                  /\ categoriesTable' = categoriesTable
             ELSE /\ last'.out.kind = "ok"
                  /\ "description" \notin DOMAIN last'.input
                        => last'.out.value.description = Null]_vars

\* of two updateCategory calls that both passed the slug check for the
\* same free slug, the second was stopped by the store; the categories
\* were created without a description
C25_Witness ==
    /\ \E p \in Writers :
          /\ proc[p].pc = "done" /\ proc[p].op = "updateCategory"
          /\ proc[p].out = Err(DuplicateKey("categories_slug_unique"))
    /\ Cardinality(DOMAIN categoriesTable) = 2
    /\ last.op = "createCategory"
    /\ last.out.kind = "ok"
    /\ last.out.value.description = Null

---------------------------------------------------------------------------
(* Claims about the category filter *)

\* C26: the validation in front of getNewsByCategory lets through only the
\* inputs that supply exactly one of category_id and category_slug: with
\* neither the call is rejected, and with both it is rejected.
C26_ExactlyOneFilter ==
    last.op = "getNewsByCategory" =>
        (last.out.kind = "ok" =>
            ("category_id" \in DOMAIN last.input) # ("category_slug" \in DOMAIN last.input))


---------------------------------------------------------------------------
(* C27 *)

\* a call that was refused by a foreign key of the database
RefusedByForeignKey(p) ==
    /\ proc[p].pc = "done"
    /\ proc[p].out.kind = "error"
    /\ proc[p].out.message \in
         {ForeignKey("news", "news_category_id_categories_id_fk"),
          ForeignKey("comments", "comments_news_id_news_id_fk"),
          StillReferenced("categories", "news_category_id_categories_id_fk", "news"),
          StillReferenced("news", "comments_news_id_news_id_fk", "comments")}

---------------------------------------------------------------------------
(* C28 *)

\* the step in which process p finishes a call of op
Finishes(p, op) ==
    /\ proc[p].op = op
    /\ proc[p].pc # "done"
    /\ proc'[p].pc = "done"

\* C28: deleteNews is all-or-nothing while createComment calls run on the
\* same news id: when it finishes, by returning or by throwing, either the
\* news row and every comment that references it are gone, or the news row
\* and every comment that referenced it when the call started are present.
C28_DeleteNewsAllOrNothing ==
    [][\A p \in Writers :
          Finishes(p, "deleteNews") =>
              \/ /\ proc[p].id \notin DOMAIN newsTable'
                 /\ \A c \in DOMAIN commentsTable' : commentsTable'[c].news_id # proc[p].id
              \/ /\ proc[p].id \in DOMAIN newsTable'
                 /\ proc[p].before \subseteq DOMAIN commentsTable']_vars


---------------------------------------------------------------------------
(* C29 *)

\* the ids of the table that a call of op updates
TargetIds(op) ==
    CASE op = "updateNews" -> DOMAIN newsTable
      [] op = "updateCategory" -> DOMAIN categoriesTable
      [] OTHER -> DOMAIN commentsTable

\* the not-found error of op
NotFoundMessage(op, id) ==
    CASE op = "updateNews" -> NewsNotFound(id)
      [] op = "updateCategory" -> CategoryNotFound(id)
      [] OTHER -> CommentNotFound(id)

\* process p runs the update statement of op after the row was deleted
StaleUpdate(p, op) ==
    /\ Finishes(p, op)
    /\ proc[p].pc = "update"
    /\ proc[p].input.id \notin TargetIds(op)

\* C29: updateNews, updateCategory, updateComment and moderateComment never
\* return without a row: when a concurrent delete of the same id takes effect
\* between the existence check and the update, the call fails with its
\* not-found error (there is no updated row to return).
C29_UpdatesNeverReturnNothing ==
    [][\A p \in Writers :
          \A op \in {"updateNews", "updateCategory", "updateComment", "moderateComment"} :
              StaleUpdate(p, op) =>
                  /\ proc'[p].out.kind = "error"
                  /\ proc'[p].out.message = NotFoundMessage(op, proc[p].input.id)]_vars


---------------------------------------------------------------------------
(* C30 *)

\* the reads that only select
PureReads ==
    {"getNews", "getAllNews", "getNewsByCategory", "getFeaturedNews", "searchNews",
     "getCategories", "getCategoryById", "getCategoryBySlug", "getUsers", "getUserById",
     "getCommentsByNewsId", "getAllComments", "getPendingComments", "login"}

\* the news table with the views_count of the rows in ids one higher
ViewsRaised(ids) ==
    [n \in DOMAIN newsTable |->
        [f \in DOMAIN newsTable[n] |->
            IF n \in ids /\ f = "views_count" THEN newsTable[n][f] + 1
            ELSE newsTable[n][f]]]

\* C30: the reads have no effect other than the view counter. The listings,
\* the category, user and comment reads and login leave every stored row as
\* it was; getNewsById and getNewsBySlug change only the views_count of the
\* single row they match, and nothing when no row matches.
C30_ReadsOnlyCountViews ==
    [][/\ (\E op \in PureReads : Called(op)) => tables' = tables
       /\ (Called("getNewsById") \/ Called("getNewsBySlug")) =>
              /\ Cardinality(Matched(last')) <= 1
              /\ newsTable' = ViewsRaised(Matched(last'))
              /\ <<usersTable, categoriesTable, commentsTable, serial>>'
                    = <<usersTable, categoriesTable, commentsTable, serial>>]_vars

\* a read by id has raised the counter of a published article that has a
\* comment's worth of other rows around it, after the clock moved
C30_Witness ==
    /\ last.op = "getNewsById"
    /\ last.input.id = 1
    /\ last.out.value # Null
    /\ newsTable[1].views_count = 2
    /\ newsTable[1].updated_at < now
    /\ newsTable[2].views_count = 0
    /\ commentsTable # <<>>

=============================================================================
